---- MODULE Spec2Model ----
(***************************************************************************)
(* A model of seonavi's structured-data audit engine                       *)
(* (src/src/lib/tools/extract-schema.ts).                                  *)
(*                                                                         *)
(* A JavaScript string is a sequence of characters.  A character is a      *)
(* one-character TLA+ string; a character outside printable ASCII is named *)
(* by its UTF-16 code unit, "u826F" for U+826F.                            *)
(*                                                                         *)
(* A JavaScript value (what JSON.parse returns, what a property read       *)
(* yields) is a record [j, s, a, m]: j is the kind, s the string form, a   *)
(* the array elements, m the object's members in insertion order.          *)
(*                                                                         *)
(* Three specifications run the parts of the audit on their own:           *)
(* SpecEval (evaluateSchema on one item), SpecJsonLd (extractJsonLd over   *)
(* the script elements of a page) and SpecMissing (checkMissingSchemas on  *)
(* a found-type set and a page text).  SpecAudit runs the whole audit of a *)
(* page: new SchemaExtractor, audit() and formatAuditReport.               *)
(***************************************************************************)
EXTENDS Integers, Sequences, FiniteSets, TLC

VARIABLES
  pc,          \* the position of the operation under way
  schemaType,  \* evaluateSchema: the item's type
  props,       \* evaluateSchema: the item's properties
  evalLabel,   \* evaluateSchema: the label returned
  evalNote,    \* evaluateSchema: the note returned
  scripts,     \* the <script type="application/ld+json"> elements each() has visited
  items,       \* extractJsonLd's items array
  thrown,      \* TRUE when an exception has left the operation
  foundTypes,  \* checkMissingSchemas: the set of schemaType strings found
  pageText,    \* checkMissingSchemas: $.text()
  missingHigh, \* result.missingHigh
  missingMid,  \* result.missingMid
  missingLow,  \* result.missingLow
  html,        \* audit: the page handed to new SchemaExtractor(html, url)
  urlArg,      \* audit: the url argument of the constructor
  url,         \* SchemaExtractor.url
  domain,      \* SchemaExtractor.domain
  result,      \* the SchemaAuditResult audit() returned
  report,      \* the text formatAuditReport(result) returned
  audits,      \* the number of audit() calls made on the extractor
  formats,     \* the number of formatAuditReport calls made on the result
  fetched,     \* runTask02SchemaAudit: the { html, pageData } fetchRaw(url) resolved with
  taskError,   \* runTask02SchemaAudit: the message of the Error thrown
  page,        \* PageFetcher.fetch: the PageData under construction
  attempt,     \* PageFetcher.fetch: the loop counter
  log,         \* the calls made so far, in order (fetch, sleep, onProgress, ...)
  steps,       \* runPipeline: the steps argument
  results,     \* runPipeline: the results array; fetchPagesForTask: its results
  urls,        \* fetchPagesForTask: the urls argument
  settled      \* fetchPagesForTask: what each fetcher.fetch(url) promise settled with

vars == <<pc, schemaType, props, evalLabel, evalNote, scripts, items,
          thrown, foundTypes, pageText, missingHigh, missingMid, missingLow,
          html, urlArg, url, domain, result, report, audits, formats,
          fetched, taskError, page, attempt, log, steps, results, urls, settled>>

evalVars == <<schemaType, props, evalLabel, evalNote>>
jsonLdVars == <<scripts, items>>
missingVars == <<foundTypes, pageText, missingHigh, missingMid, missingLow>>
auditVars == <<html, urlArg, url, domain, result, report, audits, formats>>
taskVars == <<fetched, taskError>>
fetchVars == <<page, attempt>>
pipelineVars == <<steps, results>>
fetchAllVars == <<urls, settled>>

---------------------------------------------------------------------------
(* Bounds of the model.                                                    *)

MaxEntries == 3   \* the longest list value of a property
MaxScripts == 2   \* JSON-LD script elements on a page
MaxGraph == 2     \* nodes of an @graph array
MaxTypes == 2     \* elements of an @type array
MaxAudits == 2    \* audit() calls on one extractor
MaxFormats == 2   \* formatAuditReport calls on one result

---------------------------------------------------------------------------
(* Strings.                                                                *)

Range(f) == {f[i] : i \in DOMAIN f}

\* The UTF-16 code unit of each character the model uses.
CodeUnit ==
  (
   (
    (
     (
      (
       ("u0009" :> 9 @@ "u000A" :> 10 @@ "u000D" :> 13 @@ " " :> 32 @@ "u0022" :> 34 @@ "#" :> 35)
       @@
       (
        ("&" :> 38 @@ "(" :> 40 @@ ")" :> 41 @@ "*" :> 42 @@ "+" :> 43 @@ "," :> 44)
        @@
        ("-" :> 45 @@ "." :> 46 @@ "/" :> 47 @@ "0" :> 48 @@ "1" :> 49 @@ "2" :> 50)))
      @@
      (
       (
        ("3" :> 51 @@ "4" :> 52 @@ "5" :> 53 @@ "6" :> 54 @@ "7" :> 55 @@ "8" :> 56)
        @@
        ("9" :> 57 @@ ":" :> 58 @@ "?" :> 63 @@ "@" :> 64 @@ "A" :> 65 @@ "B" :> 66))
       @@
       (
        ("C" :> 67 @@ "D" :> 68 @@ "E" :> 69 @@ "F" :> 70 @@ "G" :> 71 @@ "H" :> 72)
        @@
        ("I" :> 73 @@ "J" :> 74 @@ "K" :> 75 @@ "L" :> 76 @@ "M" :> 77 @@ "N" :> 78))))
     @@
     (
      (
       ("O" :> 79 @@ "P" :> 80 @@ "Q" :> 81 @@ "R" :> 82 @@ "S" :> 83 @@ "T" :> 84)
       @@
       (
        ("U" :> 85 @@ "V" :> 86 @@ "W" :> 87 @@ "X" :> 88 @@ "Y" :> 89 @@ "Z" :> 90)
        @@
        ("[" :> 91 @@ "]" :> 93 @@ "_" :> 95 @@ "u0060" :> 96 @@ "a" :> 97 @@ "b" :> 98)))
      @@
      (
       (
        ("c" :> 99 @@ "d" :> 100 @@ "e" :> 101 @@ "f" :> 102 @@ "g" :> 103 @@ "h" :> 104)
        @@
        ("i" :> 105 @@ "j" :> 106 @@ "k" :> 107 @@ "l" :> 108 @@ "m" :> 109 @@ "n" :> 110))
       @@
       (
        ("o" :> 111 @@ "p" :> 112 @@ "q" :> 113 @@ "r" :> 114 @@ "s" :> 115 @@ "t" :> 116)
        @@
        ("u" :> 117 @@ "v" :> 118 @@ "w" :> 119 @@ "x" :> 120 @@ "y" :> 121 @@ "z" :> 122)))))
    @@
    (
     (
      (
       ("{" :> 123 @@ "|" :> 124 @@ "}" :> 125 @@ "u00A0" :> 160 @@ "u00A5" :> 165 @@ "u2028" :> 8232)
       @@
       (
        ("u2029" :> 8233 @@ "u2605" :> 9733 @@ "u26A0" :> 9888 @@ "u2705" :> 9989 @@ "u274C" :> 10060 @@ "u3000" :> 12288)
        @@
        ("u3002" :> 12290 @@ "u300C" :> 12300 @@ "u300D" :> 12301 @@ "u3012" :> 12306 @@ "u301C" :> 12316 @@ "u3042" :> 12354)))
      @@
      (
       (
        ("u3044" :> 12356 @@ "u304B" :> 12363 @@ "u304C" :> 12364 @@ "u304D" :> 12365 @@ "u304F" :> 12367 @@ "u3053" :> 12371)
        @@
        ("u3054" :> 12372 @@ "u3055" :> 12373 @@ "u3057" :> 12375 @@ "u3059" :> 12377 @@ "u305A" :> 12378 @@ "u305B" :> 12379))
       @@
       (
        ("u305F" :> 12383 @@ "u3063" :> 12387 @@ "u3064" :> 12388 @@ "u3066" :> 12390 @@ "u3067" :> 12391 @@ "u3068" :> 12392)
        @@
        ("u306A" :> 12394 @@ "u306B" :> 12395 @@ "u306E" :> 12398 @@ "u306F" :> 12399 @@ "u3079" :> 12409 @@ "u307E" :> 12414))))
     @@
     (
      (
       ("u307F" :> 12415 @@ "u3088" :> 12424 @@ "u3089" :> 12425 @@ "u308A" :> 12426 @@ "u308B" :> 12427 @@ "u308C" :> 12428)
       @@
       (
        ("u3092" :> 12434 @@ "u3093" :> 12435 @@ "u30A2" :> 12450 @@ "u30A3" :> 12451 @@ "u30A4" :> 12452 @@ "u30A6" :> 12454)
        @@
        ("u30A8" :> 12456 @@ "u30AB" :> 12459 @@ "u30AF" :> 12463 @@ "u30B3" :> 12467 @@ "u30B5" :> 12469 @@ "u30B7" :> 12471)))
      @@
      (
       (
        ("u30B8" :> 12472 @@ "u30B9" :> 12473 @@ "u30BB" :> 12475 @@ "u30BD" :> 12477 @@ "u30BF" :> 12479 @@ "u30C1" :> 12481)
        @@
        ("u30C3" :> 12483 @@ "u30C4" :> 12484 @@ "u30C6" :> 12486 @@ "u30C7" :> 12487 @@ "u30C8" :> 12488 @@ "u30CB" :> 12491))
       @@
       (
        ("u30CD" :> 12493 @@ "u30D1" :> 12497 @@ "u30D3" :> 12499 @@ "u30D5" :> 12501 @@ "u30D7" :> 12503 @@ "u30DA" :> 12506)
        @@
        ("u30DB" :> 12507 @@ "u30DC" :> 12508 @@ "u30DD" :> 12509 @@ "u30DE" :> 12510 @@ "u30DF" :> 12511 @@ "u30E0" :> 12512))))))
   @@
   (
    (
     (
      (
       ("u30E1" :> 12513 @@ "u30E5" :> 12517 @@ "u30E7" :> 12519 @@ "u30E9" :> 12521 @@ "u30EA" :> 12522 @@ "u30EB" :> 12523)
       @@
       (
        ("u30EC" :> 12524 @@ "u30ED" :> 12525 @@ "u30F3" :> 12531 @@ "u30FB" :> 12539 @@ "u30FC" :> 12540 @@ "u4E00" :> 19968)
        @@
        ("u4E01" :> 19969 @@ "u4E0A" :> 19978 @@ "u4E0D" :> 19981 @@ "u4E2D" :> 20013 @@ "u4E3B" :> 20027 @@ "u4E8B" :> 20107)))
      @@
      (
       (
        ("u4E94" :> 20116 @@ "u4EAC" :> 20140 @@ "u4ED8" :> 20184 @@ "u4EF6" :> 20214 @@ "u4F11" :> 20241 @@ "u4F1A" :> 20250)
        @@
        ("u4F4E" :> 20302 @@ "u4F4F" :> 20303 @@ "u4F9B" :> 20379 @@ "u4FA1" :> 20385 @@ "u4FBF" :> 20415 @@ "u500B" :> 20491))
       @@
       (
        ("u5099" :> 20633 @@ "u50CF" :> 20687 @@ "u5100" :> 20736 @@ "u512A" :> 20778 @@ "u5148" :> 20808 @@ "u5165" :> 20837)
        @@
        ("u5185" :> 20869 @@ "u51FA" :> 20986 @@ "u5224" :> 21028 @@ "u5225" :> 21029 @@ "u5236" :> 21046 @@ "u529B" :> 21147))))
     @@
     (
      (
       ("u52B9" :> 21177 @@ "u5316" :> 21270 @@ "u5317" :> 21271 @@ "u533A" :> 21306 @@ "u53D6" :> 21462 @@ "u53E3" :> 21475)
       @@
       (
        ("u53EF" :> 21487 @@ "u53F7" :> 21495 @@ "u540D" :> 21517 @@ "u5411" :> 21521 @@ "u554F" :> 21839 @@ "u5584" :> 21892)
        @@
        ("u55B6" :> 21942 @@ "u56DE" :> 22238 @@ "u5728" :> 22312 @@ "u5730" :> 22320 @@ "u5909" :> 22793 @@ "u5927" :> 22823)))
      @@
      (
       (
        ("u5931" :> 22833 @@ "u5968" :> 22888 @@ "u597D" :> 22909 @@ "u5B58" :> 23384 @@ "u5B9A" :> 23450 @@ "u5B9F" :> 23455)
        @@
        ("u5BFE" :> 23550 @@ "u5C11" :> 23569 @@ "u5E74" :> 24180 @@ "u5E97" :> 24215 @@ "u5E9C" :> 24220 @@ "u5EA6" :> 24230))
       @@
       (
        ("u5F0F" :> 24335 @@ "u5F31" :> 24369 @@ "u5F37" :> 24375 @@ "u5F53" :> 24403 @@ "u5F62" :> 24418 @@ "u5F97" :> 24471)
        @@
        ("u5FC5" :> 24517 @@ "u6027" :> 24615 @@ "u6240" :> 25152 @@ "u63A5" :> 25509 @@ "u63A8" :> 25512 @@ "u63C3" :> 25539)))))
    @@
    (
     (
      (
       ("u63D0" :> 25552 @@ "u63DB" :> 25563 @@ "u652F" :> 25903 @@ "u6539" :> 25913 @@ "u6557" :> 25943 @@ "u6570" :> 25968)
       @@
       (
        ("u6599" :> 26009 @@ "u65E2" :> 26082 @@ "u65E5" :> 26085 @@ "u660E" :> 26126 @@ "u661F" :> 26143 @@ "u6700" :> 26368)
        @@
        ("u6709" :> 26377 @@ "u672A" :> 26410 @@ "u672C" :> 26412 @@ "u6771" :> 26481 @@ "u6790" :> 26512 @@ "u679C" :> 26524)))
      @@
      (
       (
        ("u67FB" :> 26619 @@ "u6848" :> 26696 @@ "u68DF" :> 26847 @@ "u691C" :> 26908 @@ "u696D" :> 26989 @@ "u69CB" :> 27083)
        @@
        ("u6D3E" :> 27966 @@ "u6D77" :> 28023 @@ "u6E08" :> 28168 @@ "u6E2F" :> 28207 @@ "u7121" :> 28961 @@ "u73FE" :> 29694))
       @@
       (
        ("u7406" :> 29702 @@ "u751F" :> 29983 @@ "u7528" :> 29992 @@ "u7531" :> 30001 @@ "u753B" :> 30011 @@ "u756A" :> 30058)
        @@
        ("u76E3" :> 30435 @@ "u76EE" :> 30446 @@ "u76F4" :> 30452 @@ "u770C" :> 30476 @@ "u793A" :> 31034 @@ "u793E" :> 31038))))
     @@
     (
      (
       (
        ("u796D" :> 31085 @@ "u7A2E" :> 31278 @@ "u7A7A" :> 31354 @@ "u7B54" :> 31572 @@ "u7D22" :> 32034 @@ "u7D50" :> 32080)
        @@
        ("u7D9A" :> 32154 @@ "u8003" :> 32771 @@ "u80FD" :> 33021 @@ "u826F" :> 33391 @@ "u829D" :> 33437 @@ "u846C" :> 33900))
       @@
       (
        ("u884C" :> 34892 @@ "u8868" :> 34920 @@ "u88C5" :> 35013 @@ "u8981" :> 35201 @@ "u89A7" :> 35239 @@ "u89E3" :> 35299)
        @@
        ("u8A18" :> 35352 @@ "u8A2D" :> 35373 @@ "u8A55" :> 35413 @@ "u8A66" :> 35430 @@ "u8A71" :> 35441 @@ "u8C61" :> 35937)))
      @@
      (
       (
        ("u8CEA" :> 36074 @@ "u8DB3" :> 36275 @@ "u9020" :> 36896 @@ "u9053" :> 36947 @@ "u90F5" :> 37109 @@ "u90FD" :> 37117)
        @@
        ("u91CD" :> 37325 @@ "u91D1" :> 37329 @@ "u962A" :> 38442 @@ "u9650" :> 38480 @@ "u96FB" :> 38651 @@ "u975E" :> 38750))
       @@
       (
        ("u9808" :> 38920 @@ "u984C" :> 38988 @@ "u9AD8" :> 39640 @@ "uFE0F" :> 65039 @@ "uFF08" :> 65288 @@ "uFF09" :> 65289)
        @@
        ("uFF1A" :> 65306 @@ "uFF1F" :> 65311)))))))

\* String.prototype.includes
Includes(s, p) ==
  \E i \in 0..(Len(s) - Len(p)) : SubSeq(s, i + 1, i + Len(p)) = p

\* String.prototype.startsWith
StartsWith(s, p) == Len(s) >= Len(p) /\ SubSeq(s, 1, Len(p)) = p

\* Array.prototype.join on an array of strings
RECURSIVE Join(_, _)
Join(parts, sep) ==
  IF parts = <<>> THEN <<>>
  ELSE IF Len(parts) = 1 THEN parts[1]
  ELSE parts[1] \o sep \o Join(Tail(parts), sep)

\* The decimal form of a non-negative integer, as `${n}` gives it.
RECURSIVE DecStr(_)
DecStr(n) ==
  LET digit == <<"0", "1", "2", "3", "4", "5", "6", "7", "8", "9">>
  IN  IF n < 10 THEN <<digit[n + 1]>>
      ELSE DecStr(n \div 10) \o <<digit[(n % 10) + 1]>>

\* a < b in the order of Array.prototype.sort without a comparator: by code units.
RECURSIVE StrLess(_, _)
StrLess(a, b) ==
  IF b = <<>> THEN FALSE
  ELSE IF a = <<>> THEN TRUE
  ELSE IF a[1] = b[1] THEN StrLess(Tail(a), Tail(b))
  ELSE CodeUnit[a[1]] < CodeUnit[b[1]]

\* Array.prototype.sort() on an array of strings.
RECURSIVE SortStrings(_)
SortStrings(xs) ==
  IF xs = <<>> THEN <<>>
  ELSE LET rest == SortStrings(Tail(xs))
           x == xs[1]
           before == SelectSeq(rest, LAMBDA y : StrLess(y, x))
           after == SelectSeq(rest, LAMBDA y : ~StrLess(y, x))
       IN  before \o <<x>> \o after

---------------------------------------------------------------------------
(* JavaScript values.                                                      *)

JVal(j, s, a, m) == [j |-> j, s |-> s, a |-> a, m |-> m]
Undefined == JVal("undefined", <<>>, <<>>, <<>>)
JNull == JVal("null", <<>>, <<>>, <<>>)
JPrim(s) == JVal("prim", s, <<>>, <<>>)      \* a non-zero number or true; s is String(v)
JStr(s) == JVal("str", s, <<>>, <<>>)
JArr(a) == JVal("arr", <<>>, a, <<>>)
JObj(m) == JVal("obj", <<>>, <<>>, m)
Member(k, v) == [k |-> k, v |-> v]

\* ToBoolean(v)
Truthy(v) ==
  CASE v.j \in {"undefined", "null"} -> FALSE
    [] v.j = "str" -> v.s # <<>>
    [] OTHER -> TRUE

\* The value of key k among the members ms of an object, undefined when absent.
MemberGet(ms, k) ==
  IF \E i \in DOMAIN ms : ms[i].k = k
  THEN ms[CHOOSE i \in DOMAIN ms : ms[i].k = k].v
  ELSE Undefined

\* v[k] for a key k that is no index and no built-in property; reading a
\* property of null or undefined throws a TypeError (see ReadThrows).
Get(v, k) == IF v.j = "obj" THEN MemberGet(v.m, k) ELSE Undefined
ReadThrows(v) == v.j \in {"null", "undefined"}

\* v.length: arrays and strings have one, the other values of the model
\* (objects without a member named length, numbers, booleans) give undefined.
HasLength(v) == v.j \in {"arr", "str"}
LengthOf(v) == IF v.j = "arr" THEN Len(v.a) ELSE Len(v.s)

\* Object.entries(v)
Entries(v) ==
  CASE v.j = "obj" -> v.m
    [] v.j = "arr" -> [i \in DOMAIN v.a |-> Member(DecStr(i - 1), v.a[i])]
    [] v.j = "str" -> [i \in DOMAIN v.s |-> Member(DecStr(i - 1), JStr(<<v.s[i]>>))]
    [] OTHER -> <<>>

\* String(v), as Array.prototype.join applies it to an element
\* (null and undefined give the empty string).
RECURSIVE ElemString(_)
ElemString(v) ==
  CASE v.j \in {"null", "undefined"} -> <<>>
    [] v.j \in {"str", "prim"} -> v.s
    [] v.j = "arr" -> Join([i \in DOMAIN v.a |-> ElemString(v.a[i])], <<",">>)
    [] OTHER -> <<"[", "o", "b", "j", "e", "c", "t", " ", "O", "b", "j", "e", "c", "t", "]">>

---------------------------------------------------------------------------
(* Evaluation labels and rule tables (extract-schema.ts:14-43).            *)

EVAL_GOOD == <<"u2705", " ", "u826F", "u597D">>
EVAL_WARN == <<"u26A0", "uFE0F", " ", "u4E0D", "u8DB3", "u3042", "u308A">>
EVAL_ERROR == <<"u274C", " ", "u91CD", "u5927", "u306A", "u554F", "u984C">>

\* The sets below are JavaScript Sets: sequences in insertion order.
LOCAL_BUSINESS_REQUIRED == <<<<"n", "a", "m", "e">>, <<"a", "d", "d", "r", "e", "s", "s">>, <<"t", "e", "l", "e", "p", "h", "o", "n", "e">>>>

LOCAL_BUSINESS_RECOMMENDED ==
  <<<<"o", "p", "e", "n", "i", "n", "g", "H", "o", "u", "r", "s">>, <<"u", "r", "l">>, <<"i", "m", "a", "g", "e">>, <<"p", "r", "i", "c", "e", "R", "a", "n", "g", "e">>, <<"g", "e", "o">>,
    <<"s", "a", "m", "e", "A", "s">>, <<"d", "e", "s", "c", "r", "i", "p", "t", "i", "o", "n">>, <<"a", "r", "e", "a", "S", "e", "r", "v", "e", "d">>>>

FUNERAL_HOME_TYPES ==
  <<<<"F", "u", "n", "e", "r", "a", "l", "H", "o", "m", "e">>, <<"L", "o", "c", "a", "l", "B", "u", "s", "i", "n", "e", "s", "s">>, <<"O", "r", "g", "a", "n", "i", "z", "a", "t", "i", "o", "n">>,
    <<"P", "r", "o", "f", "e", "s", "s", "i", "o", "n", "a", "l", "S", "e", "r", "v", "i", "c", "e">>, <<"H", "e", "a", "l", "t", "h", "A", "n", "d", "B", "e", "a", "u", "t", "y", "B", "u", "s", "i", "n", "e", "s", "s">>>>

BreadcrumbList == <<"B", "r", "e", "a", "d", "c", "r", "u", "m", "b", "L", "i", "s", "t">>
FAQPage == <<"F", "A", "Q", "P", "a", "g", "e">>
Unknown == <<"u4E0D", "u660E">>

---------------------------------------------------------------------------
(* SchemaExtractor.evaluateSchema (extract-schema.ts:166-219).  props is   *)
(* the sequence of the item's members; the result is <<label, note>>.      *)

\* The local-business rule of evaluateSchema (lines 172-195).
IsLocalBusiness(type) ==
  type \in Range(FUNERAL_HOME_TYPES) \/ Includes(type, <<"B", "u", "s", "i", "n", "e", "s", "s">>)

\* evaluateLocalBusiness without the two sort() calls.
evaluateLocalBusiness_Unsorted(ps) ==
  LET propKeys == {ps[i].k : i \in DOMAIN ps}
      missing == SelectSeq(LOCAL_BUSINESS_REQUIRED, LAMBDA k : k \notin propKeys)
      recMissing == SelectSeq(LOCAL_BUSINESS_RECOMMENDED, LAMBDA k : k \notin propKeys)
  IN  IF Len(missing) = 0
      THEN IF Len(recMissing) = 0
           THEN <<EVAL_GOOD, <<"u5FC5", "u9808", "u30FB", "u63A8", "u5968", "u30D7", "u30ED", "u30D1", "u30C6", "u30A3", "u3059", "u3079", "u3066", "u63C3", "u3063", "u3066", "u3044", "u307E", "u3059">>>>
           ELSE <<EVAL_WARN, <<"u63A8", "u5968", "u30D7", "u30ED", "u30D1", "u30C6", "u30A3", "u4E0D", "u8DB3", ":", " ">> \o Join(recMissing, <<",", " ">>)>>
      ELSE <<EVAL_WARN, <<"u5FC5", "u9808", "u30D7", "u30ED", "u30D1", "u30C6", "u30A3", "u4E0D", "u8DB3", ":", " ">> \o Join(missing, <<",", " ">>)>>

\* evaluateLocalBusiness testing the recommended properties before the required ones.
evaluateLocalBusiness_RecommendedFirst(ps) ==
  LET propKeys == {ps[i].k : i \in DOMAIN ps}
      missing == SelectSeq(LOCAL_BUSINESS_REQUIRED, LAMBDA k : k \notin propKeys)
      recMissing == SelectSeq(LOCAL_BUSINESS_RECOMMENDED, LAMBDA k : k \notin propKeys)
  IN  IF Len(recMissing) = 0
      THEN <<EVAL_GOOD, <<"u5FC5", "u9808", "u30FB", "u63A8", "u5968", "u30D7", "u30ED", "u30D1", "u30C6", "u30A3", "u3059", "u3079", "u3066", "u63C3", "u3063", "u3066", "u3044", "u307E", "u3059">>>>
      ELSE IF Len(missing) = 0
      THEN <<EVAL_WARN,
             <<"u63A8", "u5968", "u30D7", "u30ED", "u30D1", "u30C6", "u30A3", "u4E0D", "u8DB3", ":", " ">> \o Join(SortStrings(recMissing), <<",", " ">>)>>
      ELSE <<EVAL_WARN,
             <<"u5FC5", "u9808", "u30D7", "u30ED", "u30D1", "u30C6", "u30A3", "u4E0D", "u8DB3", ":", " ">> \o Join(SortStrings(missing), <<",", " ">>)>>

evaluateLocalBusiness(ps) ==
  LET propKeys == {ps[i].k : i \in DOMAIN ps}
      missing == SelectSeq(LOCAL_BUSINESS_REQUIRED, LAMBDA k : k \notin propKeys)
      recMissing == SelectSeq(LOCAL_BUSINESS_RECOMMENDED, LAMBDA k : k \notin propKeys)
  IN  IF Len(missing) = 0
      THEN IF Len(recMissing) = 0
           THEN <<EVAL_GOOD, <<"u5FC5", "u9808", "u30FB", "u63A8", "u5968", "u30D7", "u30ED", "u30D1", "u30C6", "u30A3", "u3059", "u3079", "u3066", "u63C3", "u3063", "u3066", "u3044", "u307E", "u3059">>>>
           ELSE <<EVAL_WARN,
                  <<"u63A8", "u5968", "u30D7", "u30ED", "u30D1", "u30C6", "u30A3", "u4E0D", "u8DB3", ":", " ">> \o Join(SortStrings(recMissing), <<",", " ">>)>>
      ELSE <<EVAL_WARN,
             <<"u5FC5", "u9808", "u30D7", "u30ED", "u30D1", "u30C6", "u30A3", "u4E0D", "u8DB3", ":", " ">> \o Join(SortStrings(missing), <<",", " ">>)>>

\* The BreadcrumbList rule (lines 197-202).
evaluateBreadcrumbList(ps) ==
  LET ile == MemberGet(ps, <<"i", "t", "e", "m", "L", "i", "s", "t", "E", "l", "e", "m", "e", "n", "t">>)
  IN  IF Truthy(ile) /\ HasLength(ile) /\ LengthOf(ile) > 0
      THEN <<EVAL_GOOD, <<>>>>
      ELSE <<EVAL_WARN, <<"i", "t", "e", "m", "L", "i", "s", "t", "E", "l", "e", "m", "e", "n", "t", " ", "u304C", "u7A7A", "u307E", "u305F", "u306F", "u672A", "u8A2D", "u5B9A">>>>

\* The FAQPage rule (lines 204-213).
evaluateFAQPage(ps) ==
  LET entries == MemberGet(ps, <<"m", "a", "i", "n", "E", "n", "t", "i", "t", "y">>)
      count == IF ~Truthy(entries) THEN <<"0">>
               ELSE IF HasLength(entries) THEN DecStr(LengthOf(entries))
               ELSE <<"u", "n", "d", "e", "f", "i", "n", "e", "d">>
  IN  IF Truthy(entries) /\ HasLength(entries) /\ LengthOf(entries) >= 3
      THEN <<EVAL_GOOD, <<"F", "A", "Q", " ">> \o DecStr(LengthOf(entries)) \o <<" ", "u4EF6">>>>
      ELSE <<EVAL_WARN, <<"F", "A", "Q", "u4EF6", "u6570", "u304C", "u5C11", "u306A", "u3044", "uFF08">> \o count \o <<"u4EF6", "uFF09">>>>

\* The generic rule (lines 215-218).
evaluateGeneric(ps) ==
  IF Len(ps) = 0
  THEN <<EVAL_ERROR, <<"u30D7", "u30ED", "u30D1", "u30C6", "u30A3", "u304C", "u7A7A", "u3067", "u3059">>>>
  ELSE <<EVAL_GOOD, DecStr(Len(ps)) \o <<"u500B", "u306E", "u30D7", "u30ED", "u30D1", "u30C6", "u30A3">>>>

\* evaluateSchema with the empty-properties test ahead of the typed rules.
evaluateSchema_GenericFirst(type, ps) ==
  IF Len(ps) = 0 THEN evaluateGeneric(ps)
  ELSE IF IsLocalBusiness(type) THEN evaluateLocalBusiness(ps)
  ELSE IF type = BreadcrumbList THEN evaluateBreadcrumbList(ps)
  ELSE IF type = FAQPage THEN evaluateFAQPage(ps)
  ELSE evaluateGeneric(ps)

evaluateSchema(type, ps) ==
  IF IsLocalBusiness(type) THEN evaluateLocalBusiness(ps)
  ELSE IF type = BreadcrumbList THEN evaluateBreadcrumbList(ps)
  ELSE IF type = FAQPage THEN evaluateFAQPage(ps)
  ELSE evaluateGeneric(ps)

---------------------------------------------------------------------------
(* SchemaExtractor.buildSchemaItem and extractJsonLd                       *)
(* (extract-schema.ts:103-163).                                            *)
(*                                                                         *)
(* A script element is [text, data, err, rawLen]: text tells what          *)
(* (this.$(el).html() || "").trim() is: "blank" (empty), "malformed"       *)
(* (JSON.parse throws a SyntaxError whose message is err) or "json"        *)
(* (JSON.parse returns data); rawLen is the length of the trimmed text.    *)
(* An item's raw field is modelled by its length.                          *)

Script(text, data, err, rawLen) ==
  [text |-> text, data |-> data, err |-> err, rawLen |-> rawLen]

Min(a, b) == IF a < b THEN a ELSE b

\* SchemaTypeOf joining an @type array with "/" alone.
SchemaTypeOf_SlashJoin(data) ==
  LET declared == Get(data, <<"@", "t", "y", "p", "e">>)
      joined == IF declared.j = "arr"
                THEN JStr(Join([i \in DOMAIN declared.a |-> ElemString(declared.a[i])],
                               <<"/">>))
                ELSE declared
  IN  IF Truthy(joined) THEN joined ELSE JStr(Unknown)

\* The value of schemaType after lines 140-144.
SchemaTypeOf(data) ==
  LET declared == Get(data, <<"@", "t", "y", "p", "e">>)
      joined == IF declared.j = "arr"
                THEN JStr(Join([i \in DOMAIN declared.a |-> ElemString(declared.a[i])],
                               <<" ", "/", " ">>))
                ELSE declared
  IN  IF Truthy(joined) THEN joined ELSE JStr(Unknown)

\* buildSchemaItem throws a TypeError when data is null (line 140 reads a
\* property of it) and when schemaType is not a string (line 174 calls
\* schemaType.includes, which is not a function).
buildSchemaItemThrows(data) ==
  ReadThrows(data) \/ SchemaTypeOf(data).j # "str"

buildSchemaItem(data, rawLen, source) ==
  LET type == SchemaTypeOf(data).s
      ps == SelectSeq(Entries(data), LAMBDA e : ~StartsWith(e.k, <<"@">>))
      r == evaluateSchema(type, ps)
  IN  [schemaType |-> type,
       source |-> source,
       properties |-> ps,
       raw |-> Min(rawLen, 500),
       evalLabel |-> r[1],
       evalNote |-> r[2]]

\* The item the catch block pushes (lines 121-128); e is `${e}`.
ParseErrorItem(rawLen, e) ==
  [schemaType |-> <<"(", "J", "S", "O", "N", "u89E3", "u6790", "u30A8", "u30E9", "u30FC", ")">>,
   source |-> "json-ld",
   properties |-> <<>>,
   raw |-> Min(rawLen, 200),
   evalLabel |-> EVAL_ERROR,
   evalNote |-> <<"J", "S", "O", "N", "u30D1", "u30FC", "u30B9", "u30A8", "u30E9", "u30FC", ":", " ">> \o e]

\* What a block of code did: the items it pushed, and whether it ended by
\* throwing (err is then `${e}`; the message of a TypeError depends on the
\* engine and is left out).
Completed(pushed) == [pushed |-> pushed, threw |-> FALSE, err |-> <<>>]
Threw(pushed, err) == [pushed |-> pushed, threw |-> TRUE, err |-> err]

\* for (const node of data["@graph"]) items.push(buildSchemaItem(node, ...))
\* (lines 114-116): the loop ends at the first node that throws.
RECURSIVE graphLoop(_, _)
graphLoop(nodes, rawLen) ==
  IF nodes = <<>> THEN Completed(<<>>)
  ELSE IF buildSchemaItemThrows(nodes[1]) THEN Threw(<<>>, <<"T", "y", "p", "e", "E", "r", "r", "o", "r">>)
  ELSE LET first == buildSchemaItem(nodes[1], rawLen, "json-ld")
           rest == graphLoop(Tail(nodes), rawLen)
       IN  [rest EXCEPT !.pushed = <<first>> \o rest.pushed]

\* The try block (lines 111-119).
tryBlock(el) ==
  IF el.text = "malformed" THEN Threw(<<>>, <<"S", "y", "n", "t", "a", "x", "E", "r", "r", "o", "r", ":", " ">> \o el.err)
  ELSE IF ReadThrows(el.data) THEN Threw(<<>>, <<"T", "y", "p", "e", "E", "r", "r", "o", "r">>)
  ELSE LET graph == Get(el.data, <<"@", "g", "r", "a", "p", "h">>)
       IN  IF Truthy(graph)
           THEN IF graph.j = "arr" THEN graphLoop(graph.a, el.rawLen)
                ELSE IF graph.j = "str"
                THEN graphLoop([i \in DOMAIN graph.s |-> JStr(<<graph.s[i]>>)], el.rawLen)
                ELSE Threw(<<>>, <<"T", "y", "p", "e", "E", "r", "r", "o", "r">>)   \* not iterable
           ELSE IF buildSchemaItemThrows(el.data) THEN Threw(<<>>, <<"T", "y", "p", "e", "E", "r", "r", "o", "r">>)
           ELSE Completed(<<buildSchemaItem(el.data, el.rawLen, "json-ld")>>)

\* The callback of each() without its try/catch.
eachScript_NoCatch(el) ==
  IF el.text = "blank" THEN Completed(<<>>) ELSE tryBlock(el)

\* The callback of each() whose catch block pushes nothing.
eachScript_SilentCatch(el) ==
  IF el.text = "blank" THEN Completed(<<>>)
  ELSE Completed(tryBlock(el).pushed)

\* The callback of each() (lines 106-130) on one script element.
eachScript(el) ==
  IF el.text = "blank" THEN Completed(<<>>)
  ELSE LET try == tryBlock(el)
       IN  IF try.threw
           THEN Completed(try.pushed \o <<ParseErrorItem(el.rawLen, try.err)>>)
           ELSE try

\* extractJsonLd (lines 103-133) on the script elements of a page, in
\* document order.
RECURSIVE extractJsonLd(_)

\* The each() loop after the callback completed with first on one script:
\* an exception ends the loop, otherwise the remaining scripts follow.
afterScript(first, remaining) ==
  IF first.threw THEN first
  ELSE [extractJsonLd(remaining) EXCEPT !.pushed = first.pushed \o @]

extractJsonLd(els) ==
  IF els = <<>> THEN Completed(<<>>)
  ELSE afterScript(eachScript(Head(els)), Tail(els))

---------------------------------------------------------------------------
(* SchemaAuditor.checkMissingSchemas (extract-schema.ts:381-464).          *)

Gap(type, reason) == [type |-> type, reason |-> reason]

\* [ind1, ...].some((ind) => pageText.includes(ind))
SomeIncluded(indicators, text) ==
  \E i \in DOMAIN indicators : Includes(text, indicators[i])

\* A push guarded by an if.
PushIf(cond, gap) == IF cond THEN <<gap>> ELSE <<>>

\* missingHigh with the FAQ indicator list of generateJsonLd (line 559).
missingHighGaps_ShortFaqList(found, text) ==
  LET hasLocalBusiness == \E i \in DOMAIN FUNERAL_HOME_TYPES : FUNERAL_HOME_TYPES[i] \in found
      faqIndicators == <<<<"u3088", "u304F", "u3042", "u308B", "u8CEA", "u554F">>, <<"F", "A", "Q">>, <<"Q", "&", "A">>>>
      hasFaqContent == SomeIncluded(faqIndicators, text)
  IN  PushIf(~hasLocalBusiness,
             Gap(<<"L", "o", "c", "a", "l", "B", "u", "s", "i", "n", "e", "s", "s", " ", "/", " ", "F", "u", "n", "e", "r", "a", "l", "H", "o", "m", "e">>,
                 <<"u30ED", "u30FC", "u30AB", "u30EB", "S", "E", "O", "u306E", "u6700", "u91CD", "u8981", "S", "c", "h", "e", "m", "a", "u3002", "G", "o", "o", "g", "l", "e", "u30DE", "u30C3", "u30D7", "u8868", "u793A", "u306B", "u76F4", "u7D50", "u3002">>))
      \o PushIf(BreadcrumbList \notin found,
                Gap(BreadcrumbList,
                    <<"u30D1", "u30F3", "u304F", "u305A", "u30EA", "u30C3", "u30C1", "u30B9", "u30CB", "u30DA", "u30C3", "u30C8", "u3002", "u691C", "u7D22", "u7D50", "u679C", "u306E", "U", "R", "L", "u3092", "u30D1", "u30B9", "u8868", "u793A", "u306B", "u5909", "u63DB", "u3057", "u3066", "C", "T", "R", "u5411", "u4E0A", "u3002">>))
      \o PushIf(hasFaqContent /\ FAQPage \notin found,
                Gap(FAQPage,
                    <<"F", "A", "Q", "u30B3", "u30F3", "u30C6", "u30F3", "u30C4", "u304C", "u5B58", "u5728", "u3059", "u308B", "u304C", "S", "c", "h", "e", "m", "a", "u306A", "u3057", "u3002", "F", "A", "Q", "u5F62", "u5F0F", "u306E", "u30EA", "u30C3", "u30C1", "u30B9", "u30CB", "u30DA", "u30C3", "u30C8", "u304C", "u53D6", "u5F97", "u53EF", "u80FD", "u3002">>))

\* What lines 387-418 push to result.missingHigh.
missingHighGaps(found, text) ==
  LET hasLocalBusiness == \E i \in DOMAIN FUNERAL_HOME_TYPES : FUNERAL_HOME_TYPES[i] \in found
      faqIndicators == <<<<"u3088", "u304F", "u3042", "u308B", "u8CEA", "u554F">>, <<"F", "A", "Q">>, <<"Q", "&", "A">>, <<"Q", ".">>, <<"A", ".">>>>
      hasFaqContent == SomeIncluded(faqIndicators, text)
  IN  PushIf(~hasLocalBusiness,
             Gap(<<"L", "o", "c", "a", "l", "B", "u", "s", "i", "n", "e", "s", "s", " ", "/", " ", "F", "u", "n", "e", "r", "a", "l", "H", "o", "m", "e">>,
                 <<"u30ED", "u30FC", "u30AB", "u30EB", "S", "E", "O", "u306E", "u6700", "u91CD", "u8981", "S", "c", "h", "e", "m", "a", "u3002", "G", "o", "o", "g", "l", "e", "u30DE", "u30C3", "u30D7", "u8868", "u793A", "u306B", "u76F4", "u7D50", "u3002">>))
      \o PushIf(BreadcrumbList \notin found,
                Gap(BreadcrumbList,
                    <<"u30D1", "u30F3", "u304F", "u305A", "u30EA", "u30C3", "u30C1", "u30B9", "u30CB", "u30DA", "u30C3", "u30C8", "u3002", "u691C", "u7D22", "u7D50", "u679C", "u306E", "U", "R", "L", "u3092", "u30D1", "u30B9", "u8868", "u793A", "u306B", "u5909", "u63DB", "u3057", "u3066", "C", "T", "R", "u5411", "u4E0A", "u3002">>))
      \o PushIf(hasFaqContent /\ FAQPage \notin found,
                Gap(FAQPage,
                    <<"F", "A", "Q", "u30B3", "u30F3", "u30C6", "u30F3", "u30C4", "u304C", "u5B58", "u5728", "u3059", "u308B", "u304C", "S", "c", "h", "e", "m", "a", "u306A", "u3057", "u3002", "F", "A", "Q", "u5F62", "u5F0F", "u306E", "u30EA", "u30C3", "u30C1", "u30B9", "u30CB", "u30DA", "u30C3", "u30C8", "u304C", "u53D6", "u5F97", "u53EF", "u80FD", "u3002">>))

\* missingMid with the three tests chained by else-if.
missingMidGaps_ElseIf(found, text) ==
  LET reviewIndicators ==
        <<<<"u53E3", "u30B3", "u30DF">>, <<"u30EC", "u30D3", "u30E5", "u30FC">>, <<"u8A55", "u4FA1">>, <<"u8A55", "u5224">>, <<"u661F">>, <<"u2605">>>>
      hasReview == SomeIncluded(reviewIndicators, text)
  IN  IF hasReview /\ <<"A", "g", "g", "r", "e", "g", "a", "t", "e", "R", "a", "t", "i", "n", "g">> \notin found
      THEN <<Gap(<<"A", "g", "g", "r", "e", "g", "a", "t", "e", "R", "a", "t", "i", "n", "g">>,
                 <<"u53E3", "u30B3", "u30DF", "u30FB", "u8A55", "u4FA1", "u30B3", "u30F3", "u30C6", "u30F3", "u30C4", "u304C", "u3042", "u308B", "u304C", "S", "c", "h", "e", "m", "a", "u672A", "u5B9F", "u88C5", "u3002", "u661F", "u8A55", "u4FA1", "u30B9", "u30CB", "u30DA", "u30C3", "u30C8", "u53D6", "u5F97", "u53EF", "u80FD", "u3002">>)>>
      ELSE IF <<"S", "e", "r", "v", "i", "c", "e">> \notin found
      THEN <<Gap(<<"S", "e", "r", "v", "i", "c", "e">>,
                 <<"u63D0", "u4F9B", "u30B5", "u30FC", "u30D3", "u30B9", "u3092", "S", "c", "h", "e", "m", "a", "u5316", "u3059", "u308B", "u3053", "u3068", "u3067", "u30EA", "u30C3", "u30C1", "u30B9", "u30CB", "u30DA", "u30C3", "u30C8", "u53D6", "u5F97", "u306E", "u53EF", "u80FD", "u6027", "u3002">>)>>
      ELSE PushIf(<<"W", "e", "b", "S", "i", "t", "e">> \notin found,
                  Gap(<<"W", "e", "b", "S", "i", "t", "e">>,
                      <<"u30B5", "u30A4", "u30C8", "u691C", "u7D22", "u30DC", "u30C3", "u30AF", "u30B9", "uFF08", "S", "i", "t", "e", "L", "i", "n", "k", "s", "S", "e", "a", "r", "c", "h", "B", "o", "x", "uFF09", "u306E", "u6709", "u52B9", "u5316", "u306B", "u5FC5", "u8981", "u3002">>))

\* What lines 421-454 push to result.missingMid.
missingMidGaps(found, text) ==
  LET reviewIndicators ==
        <<<<"u53E3", "u30B3", "u30DF">>, <<"u30EC", "u30D3", "u30E5", "u30FC">>, <<"u8A55", "u4FA1">>, <<"u8A55", "u5224">>, <<"u661F">>, <<"u2605">>>>
      hasReview == SomeIncluded(reviewIndicators, text)
  IN  PushIf(hasReview /\ <<"A", "g", "g", "r", "e", "g", "a", "t", "e", "R", "a", "t", "i", "n", "g">> \notin found,
             Gap(<<"A", "g", "g", "r", "e", "g", "a", "t", "e", "R", "a", "t", "i", "n", "g">>,
                 <<"u53E3", "u30B3", "u30DF", "u30FB", "u8A55", "u4FA1", "u30B3", "u30F3", "u30C6", "u30F3", "u30C4", "u304C", "u3042", "u308B", "u304C", "S", "c", "h", "e", "m", "a", "u672A", "u5B9F", "u88C5", "u3002", "u661F", "u8A55", "u4FA1", "u30B9", "u30CB", "u30DA", "u30C3", "u30C8", "u53D6", "u5F97", "u53EF", "u80FD", "u3002">>))
      \o PushIf(<<"S", "e", "r", "v", "i", "c", "e">> \notin found,
                Gap(<<"S", "e", "r", "v", "i", "c", "e">>,
                    <<"u63D0", "u4F9B", "u30B5", "u30FC", "u30D3", "u30B9", "u3092", "S", "c", "h", "e", "m", "a", "u5316", "u3059", "u308B", "u3053", "u3068", "u3067", "u30EA", "u30C3", "u30C1", "u30B9", "u30CB", "u30DA", "u30C3", "u30C8", "u53D6", "u5F97", "u306E", "u53EF", "u80FD", "u6027", "u3002">>))
      \o PushIf(<<"W", "e", "b", "S", "i", "t", "e">> \notin found,
                Gap(<<"W", "e", "b", "S", "i", "t", "e">>,
                    <<"u30B5", "u30A4", "u30C8", "u691C", "u7D22", "u30DC", "u30C3", "u30AF", "u30B9", "uFF08", "S", "i", "t", "e", "L", "i", "n", "k", "s", "S", "e", "a", "r", "c", "h", "B", "o", "x", "uFF09", "u306E", "u6709", "u52B9", "u5316", "u306B", "u5FC5", "u8981", "u3002">>))

\* What lines 457-463 push to result.missingLow.
missingLowGaps(found) ==
  PushIf(<<"I", "m", "a", "g", "e", "O", "b", "j", "e", "c", "t">> \notin found,
         Gap(<<"I", "m", "a", "g", "e", "O", "b", "j", "e", "c", "t">>, <<"u753B", "u50CF", "u306E", "S", "E", "O", "u5F37", "u5316", "u3002", "G", "o", "o", "g", "l", "e", "u306E", "u753B", "u50CF", "u691C", "u7D22", "u3067", "u306E", "u8868", "u793A", "u6539", "u5584", "u3002">>))

---------------------------------------------------------------------------
(* The evaluator on its own: an item's type and properties are drawn from  *)
(* bounded sets and evaluateSchema is applied to them.                     *)

AutomotiveBusiness == <<"A", "u", "t", "o", "m", "o", "t", "i", "v", "e", "B", "u", "s", "i", "n", "e", "s", "s">>
WebPage == <<"W", "e", "b", "P", "a", "g", "e">>

\* The types evaluated: family members, a subtype and a joined @type array
\* that only contain "Business", the two other typed rules, and generic types.
EvalTypes ==
  {<<"F", "u", "n", "e", "r", "a", "l", "H", "o", "m", "e">>, <<"O", "r", "g", "a", "n", "i", "z", "a", "t", "i", "o", "n">>, <<"H", "e", "a", "l", "t", "h", "A", "n", "d", "B", "e", "a", "u", "t", "y", "B", "u", "s", "i", "n", "e", "s", "s">>,
   AutomotiveBusiness, <<"B", "r", "e", "a", "d", "c", "r", "u", "m", "b", "L", "i", "s", "t", " ", "/", " ", "L", "o", "c", "a", "l", "B", "u", "s", "i", "n", "e", "s", "s">>,
   BreadcrumbList, FAQPage, WebPage, Unknown}

\* A list of n entries, as a JSON-LD array property holds.
ListOf(n) == JArr([i \in 1..n |-> JObj(<<>>)])

\* The values of itemListElement and mainEntity: JSON-LD lists, the strings
\* microdata and RDFa extraction store (lines 236-240, 273-275), a single
\* object, null and a number.
SpecialValues ==
  {ListOf(n) : n \in 0..MaxEntries}
    \cup {JStr(<<>>), JStr(<<"Q", "?">>), JStr(<<"H", "o", "m", "e">>), JObj(<<>>), JNull, JPrim(<<"5">>)}

PlainKeys == LOCAL_BUSINESS_REQUIRED \o LOCAL_BUSINESS_RECOMMENDED \o <<<<"l", "o", "g", "o">>>>

\* The property bag holding the keys of PlainKeys that are in S.
PlainProps(S) ==
  LET ks == SelectSeq(PlainKeys, LAMBDA k : k \in S)
  IN  [i \in DOMAIN ks |-> Member(ks[i], JStr(<<"x">>))]

Optional(k, V) == {<<>>} \cup {<<Member(k, v)>> : v \in V}

EvalProps ==
  {PlainProps(S) : S \in SUBSET Range(PlainKeys)}
    \cup {PlainProps(S) \o ile \o me :
            S \in {{}, Range(LOCAL_BUSINESS_REQUIRED),
                   Range(LOCAL_BUSINESS_REQUIRED \o LOCAL_BUSINESS_RECOMMENDED)},
            ile \in Optional(<<"i", "t", "e", "m", "L", "i", "s", "t", "E", "l", "e", "m", "e", "n", "t">>, SpecialValues),
            me \in Optional(<<"m", "a", "i", "n", "E", "n", "t", "i", "t", "y">>, SpecialValues)}

IdleEval ==
  /\ schemaType = <<>> /\ props = <<>> /\ evalLabel = <<>> /\ evalNote = <<>>
IdleJsonLd == scripts = <<>> /\ items = <<>>
IdleMissing ==
  /\ foundTypes = {} /\ pageText = <<>>
  /\ missingHigh = <<>> /\ missingMid = <<>> /\ missingLow = <<>>
IdleAudit ==
  /\ html = <<>> /\ urlArg = <<>> /\ url = <<>> /\ domain = <<>>
  /\ result = <<>> /\ report = <<>> /\ audits = 0 /\ formats = 0
IdleTask == fetched = <<>> /\ taskError = <<>>
IdleFetch == page = <<>> /\ attempt = 0
IdlePipeline == steps = <<>> /\ results = <<>>
IdleFetchAll == urls = <<>> /\ settled = <<>>
IdleAgents == IdleTask /\ IdleFetch /\ IdlePipeline /\ IdleFetchAll /\ log = <<>>

InitEval ==
  /\ IdleAgents
  /\ pc = "evaluate"
  /\ schemaType \in EvalTypes
  /\ props \in EvalProps
  /\ evalLabel = <<>>
  /\ evalNote = <<>>
  /\ thrown = FALSE
  /\ IdleJsonLd
  /\ IdleMissing
  /\ IdleAudit

\* const [evalLabel, evalNote] = this.evaluateSchema(schemaType, props)
Evaluate ==
  /\ pc = "evaluate"
  /\ LET r == evaluateSchema(schemaType, props)
     IN  evalLabel' = r[1] /\ evalNote' = r[2]
  /\ pc' = "evaluated"
  /\ UNCHANGED <<taskVars, fetchVars, pipelineVars, fetchAllVars, log,
                 schemaType, props, thrown, jsonLdVars, missingVars, auditVars>>

NextEval == Evaluate

SpecEval == InitEval /\ [][NextEval]_vars

---------------------------------------------------------------------------
(* Claims about the evaluator, checked under SpecEval.                     *)

PropKeys == {props[i].k : i \in DOMAIN props}

\* C4: an item whose type is in the local-business family set or contains
\* "Business" is labelled warning with the missing required properties
\* (sorted, comma-joined) when name, address or telephone is absent;
\* otherwise good when all eight recommended properties are present;
\* otherwise warning with the missing recommended properties (sorted).  The
\* rule wins over the BreadcrumbList, FAQPage and generic rules.
C4_LocalBusinessRule ==
  (/\ pc = "evaluated"
   /\ \/ schemaType \in Range(FUNERAL_HOME_TYPES)
      \/ Includes(schemaType, <<"B", "u", "s", "i", "n", "e", "s", "s">>))
  => LET required == <<<<"a", "d", "d", "r", "e", "s", "s">>, <<"n", "a", "m", "e">>, <<"t", "e", "l", "e", "p", "h", "o", "n", "e">>>>
         recommended == <<<<"a", "r", "e", "a", "S", "e", "r", "v", "e", "d">>, <<"d", "e", "s", "c", "r", "i", "p", "t", "i", "o", "n">>, <<"g", "e", "o">>, <<"i", "m", "a", "g", "e">>,
                          <<"o", "p", "e", "n", "i", "n", "g", "H", "o", "u", "r", "s">>, <<"p", "r", "i", "c", "e", "R", "a", "n", "g", "e">>, <<"s", "a", "m", "e", "A", "s">>, <<"u", "r", "l">>>>
         missing == SelectSeq(required, LAMBDA k : k \notin PropKeys)
         recMissing == SelectSeq(recommended, LAMBDA k : k \notin PropKeys)
     IN  IF missing # <<>>
         THEN /\ evalLabel = EVAL_WARN
              /\ evalNote = <<"u5FC5", "u9808", "u30D7", "u30ED", "u30D1", "u30C6", "u30A3", "u4E0D", "u8DB3", ":", " ">> \o Join(missing, <<",", " ">>)
         ELSE IF recMissing = <<>>
         THEN /\ evalLabel = EVAL_GOOD
              /\ evalNote = <<"u5FC5", "u9808", "u30FB", "u63A8", "u5968", "u30D7", "u30ED", "u30D1", "u30C6", "u30A3", "u3059", "u3079", "u3066", "u63C3", "u3063", "u3066", "u3044", "u307E", "u3059">>
         ELSE /\ evalLabel = EVAL_WARN
              /\ evalNote = <<"u63A8", "u5968", "u30D7", "u30ED", "u30D1", "u30C6", "u30A3", "u4E0D", "u8DB3", ":", " ">> \o Join(recMissing, <<",", " ">>)

\* C4 witness: a subtype that only contains "Business", with every required
\* property and all recommended ones but url and areaServed, has been
\* evaluated and the note lists the two in sorted order.
C4_Witness ==
  /\ pc = "evaluated"
  /\ schemaType = AutomotiveBusiness
  /\ PropKeys = Range(LOCAL_BUSINESS_REQUIRED \o LOCAL_BUSINESS_RECOMMENDED)
                  \ {<<"u", "r", "l">>, <<"a", "r", "e", "a", "S", "e", "r", "v", "e", "d">>}
  /\ evalLabel = EVAL_WARN
  /\ evalNote = <<"u63A8", "u5968", "u30D7", "u30ED", "u30D1", "u30C6", "u30A3", "u4E0D", "u8DB3", ":", " ", "a", "r", "e", "a", "S", "e", "r", "v", "e", "d", ",", " ", "u", "r", "l">>

\* C5: a FAQPage item is labelled good exactly when mainEntity exists and
\* has at least 3 entries; otherwise it is labelled warning and the note
\* reports the number of entries, 0 when mainEntity is absent.
C5_FAQPageRule ==
  (pc = "evaluated" /\ schemaType = FAQPage)
  => LET mainEntity == MemberGet(props, <<"m", "a", "i", "n", "E", "n", "t", "i", "t", "y">>)
         isList == mainEntity.j = "arr"
     IN  IF isList /\ Len(mainEntity.a) >= 3
         THEN /\ evalLabel = EVAL_GOOD
              /\ evalNote = <<"F", "A", "Q", " ">> \o DecStr(Len(mainEntity.a)) \o <<" ", "u4EF6">>
         ELSE /\ evalLabel = EVAL_WARN
              /\ \E n \in 0..MaxEntries :
                   /\ evalNote = <<"F", "A", "Q", "u4EF6", "u6570", "u304C", "u5C11", "u306A", "u3044", "uFF08">> \o DecStr(n) \o <<"u4EF6", "uFF09">>
                   /\ isList => n = Len(mainEntity.a)
                   /\ mainEntity = Undefined => n = 0

\* C6: a BreadcrumbList item is labelled good exactly when itemListElement
\* exists and is a non-empty list; for every other value (absent, an empty
\* list, a value that is not a list) it is labelled warning with the fixed note.
C6_BreadcrumbListRule ==
  (pc = "evaluated" /\ schemaType = BreadcrumbList)
  => LET itemListElement == MemberGet(props, <<"i", "t", "e", "m", "L", "i", "s", "t", "E", "l", "e", "m", "e", "n", "t">>)
     IN  IF itemListElement.j = "arr" /\ Len(itemListElement.a) > 0
         THEN evalLabel = EVAL_GOOD
         ELSE /\ evalLabel = EVAL_WARN
              /\ evalNote = <<"i", "t", "e", "m", "L", "i", "s", "t", "E", "l", "e", "m", "e", "n", "t", " ", "u304C", "u7A7A", "u307E", "u305F", "u306F", "u672A", "u8A2D", "u5B9A">>

\* C7: an item whose type matches none of the three typed rules is labelled
\* error exactly when it has no properties, and otherwise good with the
\* number of properties in the note; an item matched by a typed rule is
\* never labelled error.
C7_GenericRule ==
  pc = "evaluated"
  => IF \/ schemaType \in Range(FUNERAL_HOME_TYPES)
        \/ Includes(schemaType, <<"B", "u", "s", "i", "n", "e", "s", "s">>)
        \/ schemaType \in {BreadcrumbList, FAQPage}
     THEN evalLabel # EVAL_ERROR
     ELSE IF Len(props) = 0
     THEN evalLabel = EVAL_ERROR /\ evalNote = <<"u30D7", "u30ED", "u30D1", "u30C6", "u30A3", "u304C", "u7A7A", "u3067", "u3059">>
     ELSE evalLabel = EVAL_GOOD /\ evalNote = DecStr(Len(props)) \o <<"u500B", "u306E", "u30D7", "u30ED", "u30D1", "u30C6", "u30A3">>

\* C7 witness: a generic item without properties has been labelled error.
C7_Witness ==
  /\ pc = "evaluated"
  /\ schemaType = WebPage
  /\ props = <<>>
  /\ evalLabel = EVAL_ERROR

\* The severity tier of a label: good < warning < error.
Severity(label) ==
  CASE label = EVAL_GOOD -> 0
    [] label = EVAL_WARN -> 1
    [] label = EVAL_ERROR -> 2

\* C8: removing one required property from a local-business item, all other
\* properties kept, never moves the label to a better tier: a good item
\* becomes warning and a warning item does not become good.
C8_RequiredMonotone ==
  (/\ pc = "evaluated"
   /\ \/ schemaType \in Range(FUNERAL_HOME_TYPES)
      \/ Includes(schemaType, <<"B", "u", "s", "i", "n", "e", "s", "s">>))
  => \A k \in Range(LOCAL_BUSINESS_REQUIRED) \cap PropKeys :
       LET without == SelectSeq(props, LAMBDA p : p.k # k)
           after == evaluateSchema(schemaType, without)[1]
       IN  /\ Severity(after) >= Severity(evalLabel)
           /\ evalLabel = EVAL_GOOD => after = EVAL_WARN
           /\ evalLabel = EVAL_WARN => after # EVAL_GOOD

\* C8 witness: a complete local-business item has been labelled good, so
\* that each of its three required properties can be removed.
C8_Witness ==
  /\ pc = "evaluated"
  /\ schemaType = <<"F", "u", "n", "e", "r", "a", "l", "H", "o", "m", "e">>
  /\ Range(LOCAL_BUSINESS_REQUIRED) \subseteq PropKeys
  /\ evalLabel = EVAL_GOOD

---------------------------------------------------------------------------
(* extractJsonLd on its own: each() meets the page's JSON-LD script        *)
(* elements one after another, every element drawn from ScriptElements.    *)

TypeNames == <<<<"L", "o", "c", "a", "l", "B", "u", "s", "i", "n", "e", "s", "s">>, <<"O", "r", "g", "a", "n", "i", "z", "a", "t", "i", "o", "n">>>>

\* The @type arrays: every array of at most MaxTypes names.
TypeArrays ==
  UNION {{JArr([i \in 1..n |-> JStr(f[i])]) : f \in [1..n -> Range(TypeNames)]} :
           n \in 0..MaxTypes}

\* What a node declares as @type: nothing, null, a number, a string, an array.
DeclaredTypes ==
  {Undefined, JNull, JPrim(<<"5">>), JStr(WebPage), JStr(FAQPage)} \cup TypeArrays

NameProp == <<Member(<<"n", "a", "m", "e">>, JStr(<<"x">>))>>

Node(type, ps) ==
  JObj(<<Member(<<"@", "c", "o", "n", "t", "e", "x", "t">>, JStr(<<"h", "t", "t", "p", "s", ":", "/", "/", "s", "c", "h", "e", "m", "a", ".", "o", "r", "g">>))>>
         \o (IF type = Undefined THEN <<>> ELSE <<Member(<<"@", "t", "y", "p", "e">>, type)>>)
         \o ps)

\* The JSON texts without @graph: null, a number, a string, and objects.
SingleNodes ==
  {JNull, JPrim(<<"5">>), JStr(<<"a", "b">>), Node(JStr(WebPage), <<>>)}
    \cup {Node(type, NameProp) : type \in DeclaredTypes}

GraphNodes ==
  {JNull, Node(JStr(<<"W", "e", "b", "S", "i", "t", "e">>), NameProp), Node(JStr(<<"O", "r", "g", "a", "n", "i", "z", "a", "t", "i", "o", "n">>), <<>>)}

\* The JSON texts with @graph: every array of at most MaxGraph nodes, and
\* an @graph that is a number, null and a string.
GraphWrappers ==
  UNION {{JObj(<<Member(<<"@", "g", "r", "a", "p", "h">>, JArr(g))>>) : g \in [1..n -> GraphNodes]} :
           n \in 0..MaxGraph}
    \cup {JObj(<<Member(<<"@", "g", "r", "a", "p", "h">>, g), Member(<<"@", "t", "y", "p", "e">>, JStr(WebPage))>>) :
            g \in {JPrim(<<"5">>), JNull, JStr(<<"a", "b">>)}}

ScriptElements ==
  {Script("blank", Undefined, <<>>, 0),
   Script("malformed", Undefined, <<"U", "n", "e", "x", "p", "e", "c", "t", "e", "d", " ", "t", "o", "k", "e", "n">>, 250)}
    \cup {Script("json", d, <<>>, 600) : d \in SingleNodes \cup GraphWrappers}

InitJsonLd ==
  /\ IdleAgents
  /\ pc = "each"
  /\ scripts = <<>>
  /\ items = <<>>
  /\ thrown = FALSE
  /\ IdleEval
  /\ IdleMissing
  /\ IdleAudit

\* each() calls the callback on the next script element of the page.
EachScript(el) ==
  /\ pc = "each"
  /\ Len(scripts) < MaxScripts
  /\ LET done == eachScript(el)
     IN  /\ items' = items \o done.pushed
         /\ thrown' = done.threw
         /\ pc' = IF done.threw THEN "thrown" ELSE "each"
  /\ scripts' = Append(scripts, el)
  /\ UNCHANGED <<taskVars, fetchVars, pipelineVars, fetchAllVars, log,
                 evalVars, missingVars, auditVars>>

\* return items (line 132): the page has no further script element.
ReturnItems ==
  /\ pc = "each"
  /\ pc' = "returned"
  /\ UNCHANGED <<taskVars, fetchVars, pipelineVars, fetchAllVars, log,
                 scripts, items, thrown, evalVars, missingVars, auditVars>>

NextJsonLd == (\E el \in ScriptElements : EachScript(el)) \/ ReturnItems

SpecJsonLd == InitJsonLd /\ [][NextJsonLd]_vars

---------------------------------------------------------------------------
(* Claims about extractJsonLd, checked under SpecJsonLd.                   *)

\* s without its i-th element.
RemoveAt(s, i) == SubSeq(s, 1, i - 1) \o SubSeq(s, i + 1, Len(s))

\* Script i of the page yields exactly one item, labelled error and without
\* properties, and the other items are those of the page without script i.
YieldsOneErrorItem(i) ==
  LET at == Len(extractJsonLd(SubSeq(scripts, 1, i - 1)).pushed) + 1
  IN  /\ at <= Len(items)
      /\ items[at].evalLabel = EVAL_ERROR
      /\ items[at].properties = <<>>
      /\ RemoveAt(items, at) = extractJsonLd(RemoveAt(scripts, i)).pushed

\* C1 (as amended): every JSON-LD script whose trimmed text is not empty and
\* is not valid JSON yields exactly one item labelled error, with empty
\* properties; the items of the other scripts are the same as if the
\* malformed script were not there; extractJsonLd never throws.
C1_MalformedIsolated ==
  /\ ~thrown
  /\ \A i \in DOMAIN scripts : scripts[i].text = "malformed" => YieldsOneErrorItem(i)

\* C1 as stated: every JSON-LD script whose text is not valid JSON, the
\* empty text included, yields exactly one error item.
C1_EveryInvalidTextOneItem ==
  /\ ~thrown
  /\ \A i \in DOMAIN scripts : scripts[i].text # "json" => YieldsOneErrorItem(i)

\* C1 witness: extractJsonLd has returned from a page whose first script is
\* malformed and whose second is a valid node: an error item, then the
\* node's own item.
C1_Witness ==
  /\ pc = "returned"
  /\ Len(scripts) = 2
  /\ scripts[1].text = "malformed"
  /\ scripts[2] = Script("json", Node(JStr(WebPage), NameProp), <<>>, 600)
  /\ Len(items) = 2
  /\ items[1].evalLabel = EVAL_ERROR
  /\ items[2].schemaType = WebPage
  /\ items[2].evalLabel = EVAL_GOOD

\* The object data has a member named @graph.
HasGraphMember(data) ==
  data.j = "obj" /\ \E i \in DOMAIN data.m : data.m[i].k = <<"@", "g", "r", "a", "p", "h">>

\* each() has just visited one more script element.
Visited == Len(scripts') = Len(scripts) + 1
LastScript == scripts'[Len(scripts')]

\* The elements of the @type array of data, joined with " / ".
JoinedTypes(data) ==
  LET declared == Get(data, <<"@", "t", "y", "p", "e">>)
  IN  Join([i \in DOMAIN declared.a |-> declared.a[i].s], <<" ", "/", " ">>)

\* C2 (as amended): a JSON-LD script whose text is valid JSON without an
\* @graph member adds exactly one item; when the node's @type is an array,
\* the item's schemaType is the elements joined with " / " in their order,
\* except that an array whose join is the empty string gives "不明".
C2_OneItemPerNode ==
  [][(Visited /\ LastScript.text = "json" /\ ~HasGraphMember(LastScript.data))
     => /\ Len(items') = Len(items) + 1
        /\ SubSeq(items', 1, Len(items)) = items
        /\ Get(LastScript.data, <<"@", "t", "y", "p", "e">>).j = "arr"
           => items'[Len(items')].schemaType
                = IF JoinedTypes(LastScript.data) = <<>> THEN Unknown
                  ELSE JoinedTypes(LastScript.data)]_vars

\* C2 as stated: the schemaType of a node whose @type is an array is always
\* the joined elements.
C2_AlwaysJoined ==
  [][(Visited /\ LastScript.text = "json" /\ ~HasGraphMember(LastScript.data))
     => /\ Len(items') = Len(items) + 1
        /\ SubSeq(items', 1, Len(items)) = items
        /\ Get(LastScript.data, <<"@", "t", "y", "p", "e">>).j = "arr"
           => items'[Len(items')].schemaType = JoinedTypes(LastScript.data)]_vars

\* C2 witness: a node whose @type is ["LocalBusiness", "Organization"] has
\* been extracted as one item of type "LocalBusiness / Organization".
C2_Witness ==
  /\ Len(scripts) = 1
  /\ scripts[1].text = "json"
  /\ Get(scripts[1].data, <<"@", "t", "y", "p", "e">>)
       = JArr(<<JStr(<<"L", "o", "c", "a", "l", "B", "u", "s", "i", "n", "e", "s", "s">>), JStr(<<"O", "r", "g", "a", "n", "i", "z", "a", "t", "i", "o", "n">>)>>)
  /\ Len(items) = 1
  /\ items[1].schemaType = <<"L", "o", "c", "a", "l", "B", "u", "s", "i", "n", "e", "s", "s", " ", "/", " ", "O", "r", "g", "a", "n", "i", "z", "a", "t", "i", "o", "n">>

\* C3: a JSON-LD script whose JSON has an @graph array of N nodes adds
\* exactly N items, one per node in graph order (the item of an object node
\* holds that node's properties), and none for the wrapper.
C3_GraphExpanded ==
  [][(/\ Visited
      /\ LastScript.text = "json"
      /\ Get(LastScript.data, <<"@", "g", "r", "a", "p", "h">>).j = "arr")
     => LET nodes == Get(LastScript.data, <<"@", "g", "r", "a", "p", "h">>).a
        IN  /\ Len(items') = Len(items) + Len(nodes)
            /\ SubSeq(items', 1, Len(items)) = items
            /\ \A n \in DOMAIN nodes :
                 nodes[n].j = "obj"
                 => items'[Len(items) + n].properties
                      = SelectSeq(nodes[n].m, LAMBDA e : e.k[1] # "@")]_vars

---------------------------------------------------------------------------
(* checkMissingSchemas on its own: the found-type set and the page text    *)
(* are drawn from bounded sets.                                            *)

\* The types a page may declare: the local-business family, the types the
\* detector looks for, and one it does not.
FoundTypeUniverse ==
  Range(FUNERAL_HOME_TYPES)
    \cup {BreadcrumbList, FAQPage, <<"A", "g", "g", "r", "e", "g", "a", "t", "e", "R", "a", "t", "i", "n", "g">>, <<"S", "e", "r", "v", "i", "c", "e">>, <<"W", "e", "b", "S", "i", "t", "e">>,
          <<"I", "m", "a", "g", "e", "O", "b", "j", "e", "c", "t">>, WebPage}

FaqExampleText == <<"u3088", "u304F", "u3042", "u308B", "u8CEA", "u554F", "uFF1A", "Q", ".", " ", "u5B9A", "u4F11", "u65E5", "u306F", "uFF1F", " ", "A", ".", " ", "u5E74", "u4E2D", "u7121", "u4F11", "u3067", "u3059", "u3002">>

\* Page texts: without any indicator, with each FAQ indicator, with each
\* review indicator, with both kinds, and near misses.
PageTexts ==
  {<<>>, <<"u846C", "u5100", "u306E", "u3054", "u6848", "u5185">>, FaqExampleText,
   <<"F", "A", "Q">>, <<"u5F53", "u793E", "u306E", "Q", "&", "A", "u3067", "u3059">>, <<"Q", ".", " ", "u6599", "u91D1", "u306F", "uFF1F">>, <<"U", ".", "S", ".", "A", ".", " ", "u652F", "u5E97">>,
   <<"f", "a", "q">>, <<"F", " ", "A", " ", "Q">>,
   <<"u53E3", "u30B3", "u30DF">>, <<"u30EC", "u30D3", "u30E5", "u30FC", "u4E00", "u89A7">>, <<"u9AD8", "u3044", "u8A55", "u4FA1">>, <<"u8A55", "u5224", "u306E", "u5E97">>, <<"u4E94", "u3064", "u661F">>, <<"u2605", "u2605", "u2605">>,
   <<"F", "A", "Q", " ", "u2605">>}

InitMissing ==
  /\ IdleAgents
  /\ pc = "check"
  /\ foundTypes \in SUBSET FoundTypeUniverse
  /\ pageText \in PageTexts
  /\ missingHigh = <<>>
  /\ missingMid = <<>>
  /\ missingLow = <<>>
  /\ thrown = FALSE
  /\ IdleEval
  /\ IdleJsonLd
  /\ IdleAudit

\* this.checkMissingSchemas(result, foundTypes)
CheckMissingSchemas ==
  /\ pc = "check"
  /\ missingHigh' = missingHigh \o missingHighGaps(foundTypes, pageText)
  /\ missingMid' = missingMid \o missingMidGaps(foundTypes, pageText)
  /\ missingLow' = missingLow \o missingLowGaps(foundTypes)
  /\ pc' = "checked"
  /\ UNCHANGED <<taskVars, fetchVars, pipelineVars, fetchAllVars, log,
                 foundTypes, pageText, thrown, evalVars, jsonLdVars, auditVars>>

NextMissing == CheckMissingSchemas

SpecMissing == InitMissing /\ [][NextMissing]_vars

---------------------------------------------------------------------------
(* Claims about checkMissingSchemas, checked under SpecMissing.            *)

GapTypes(gaps) == [i \in DOMAIN gaps |-> gaps[i].type]

\* C9: missingHigh holds, in this order and each at most once, the
\* "LocalBusiness / FuneralHome" gap iff no local-business family type is
\* found, the BreadcrumbList gap iff BreadcrumbList is not found, and the
\* FAQPage gap iff the text contains an FAQ indicator and FAQPage is not
\* found; found types {WebPage} with "よくある質問" in the text give three.
C9_MissingHigh ==
  pc = "checked"
  => LET family == {<<"F", "u", "n", "e", "r", "a", "l", "H", "o", "m", "e">>, <<"L", "o", "c", "a", "l", "B", "u", "s", "i", "n", "e", "s", "s">>, <<"O", "r", "g", "a", "n", "i", "z", "a", "t", "i", "o", "n">>,
                    <<"P", "r", "o", "f", "e", "s", "s", "i", "o", "n", "a", "l", "S", "e", "r", "v", "i", "c", "e">>, <<"H", "e", "a", "l", "t", "h", "A", "n", "d", "B", "e", "a", "u", "t", "y", "B", "u", "s", "i", "n", "e", "s", "s">>}
         hasFaq == \E ind \in {<<"u3088", "u304F", "u3042", "u308B", "u8CEA", "u554F">>, <<"F", "A", "Q">>, <<"Q", "&", "A">>, <<"Q", ".">>, <<"A", ".">>} :
                     Includes(pageText, ind)
     IN  /\ GapTypes(missingHigh)
              = (IF family \cap foundTypes = {}
                 THEN <<<<"L", "o", "c", "a", "l", "B", "u", "s", "i", "n", "e", "s", "s", " ", "/", " ", "F", "u", "n", "e", "r", "a", "l", "H", "o", "m", "e">>>> ELSE <<>>)
                \o (IF BreadcrumbList \notin foundTypes THEN <<BreadcrumbList>> ELSE <<>>)
                \o (IF hasFaq /\ FAQPage \notin foundTypes THEN <<FAQPage>> ELSE <<>>)
         /\ (foundTypes = {WebPage} /\ Includes(pageText, <<"u3088", "u304F", "u3042", "u308B", "u8CEA", "u554F">>))
            => Len(missingHigh) = 3

\* C9 witness: the detector has run on found types {WebPage} and the FAQ
\* example text, and missingHigh holds the three gaps.
C9_Witness ==
  /\ pc = "checked"
  /\ foundTypes = {WebPage}
  /\ pageText = FaqExampleText
  /\ GapTypes(missingHigh) = <<<<"L", "o", "c", "a", "l", "B", "u", "s", "i", "n", "e", "s", "s", " ", "/", " ", "F", "u", "n", "e", "r", "a", "l", "H", "o", "m", "e">>, BreadcrumbList, FAQPage>>

\* C10: missingMid holds, in this order, the AggregateRating gap iff the
\* text contains a review indicator and AggregateRating is not found, the
\* Service gap iff Service is not found and the WebSite gap iff WebSite is
\* not found, whatever the text; missingLow holds the ImageObject gap iff
\* ImageObject is not found; no check depends on the outcome of another.
C10_MissingMidLow ==
  pc = "checked"
  => LET hasReview ==
           \E ind \in {<<"u53E3", "u30B3", "u30DF">>, <<"u30EC", "u30D3", "u30E5", "u30FC">>, <<"u8A55", "u4FA1">>, <<"u8A55", "u5224">>, <<"u661F">>, <<"u2605">>} :
             Includes(pageText, ind)
     IN  /\ GapTypes(missingMid)
              = (IF hasReview /\ <<"A", "g", "g", "r", "e", "g", "a", "t", "e", "R", "a", "t", "i", "n", "g">> \notin foundTypes
                 THEN <<<<"A", "g", "g", "r", "e", "g", "a", "t", "e", "R", "a", "t", "i", "n", "g">>>> ELSE <<>>)
                \o (IF <<"S", "e", "r", "v", "i", "c", "e">> \notin foundTypes THEN <<<<"S", "e", "r", "v", "i", "c", "e">>>> ELSE <<>>)
                \o (IF <<"W", "e", "b", "S", "i", "t", "e">> \notin foundTypes THEN <<<<"W", "e", "b", "S", "i", "t", "e">>>> ELSE <<>>)
         /\ GapTypes(missingLow)
              = (IF <<"I", "m", "a", "g", "e", "O", "b", "j", "e", "c", "t">> \notin foundTypes THEN <<<<"I", "m", "a", "g", "e", "O", "b", "j", "e", "c", "t">>>> ELSE <<>>)

\* C10 witness: the detector has run on a text with a review indicator and
\* found types {WebPage}: all three mid gaps and the low gap are reported.
C10_Witness ==
  /\ pc = "checked"
  /\ foundTypes = {WebPage}
  /\ pageText = <<"u2605", "u2605", "u2605">>
  /\ GapTypes(missingMid) = <<<<"A", "g", "g", "r", "e", "g", "a", "t", "e", "R", "a", "t", "i", "n", "g">>, <<"S", "e", "r", "v", "i", "c", "e">>, <<"W", "e", "b", "S", "i", "t", "e">>>>
  /\ GapTypes(missingLow) = <<<<"I", "m", "a", "g", "e", "O", "b", "j", "e", "c", "t">>>>

---------------------------------------------------------------------------
(* Regular expressions, as String.prototype.match runs them: a backtracking *)
(* matcher that tries the alternatives of | in order and the repetitions  *)
(* of a greedy quantifier longest first.  A position is an index into the  *)
(* text; a match from i to e covers the characters i..e-1.                 *)

Digits == {"0", "1", "2", "3", "4", "5", "6", "7", "8", "9"}

\* The characters \s matches and trim() removes.
WhiteSpace ==
  {" ", "u0009", "u000A", "u000D", "u00A0", "u3000"}

\* The characters . does not match.

ReNode(t, set, lo, hi, rs) == [t |-> t, set |-> set, lo |-> lo, hi |-> hi, rs |-> rs]
ReClass(S) == ReNode("class", S, 0, 0, <<>>)           \* [...] , \d , \s , a literal
ReRange(lo, hi) == ReNode("range", {}, lo, hi, <<>>)   \* [\uLLLL-\uHHHH]
ReAny == ReNode("any", {}, 0, 0, <<>>)                 \* .
ReCat(rs) == ReNode("cat", {}, 0, 0, rs)               \* r1 r2 ...
ReAlt(rs) == ReNode("alt", {}, 0, 0, rs)               \* r1 | r2 | ...
ReRep(r, lo, hi) == ReNode("rep", {}, lo, hi, <<r>>)   \* r{lo,hi}; hi = -1: no limit
ReLit(s) == ReCat([i \in DOMAIN s |-> ReClass({s[i]})])

\* The concatenation of the sequences of ss.
RECURSIVE Flatten(_)
Flatten(ss) ==
  IF ss = <<>> THEN <<>>
  ELSE IF Len(ss) = 1 THEN ss[1]
  ELSE LET half == Len(ss) \div 2
       IN  Flatten(SubSeq(ss, 1, half)) \o Flatten(SubSeq(ss, half + 1, Len(ss)))

\* A node that matches one character, and whether it matches c.
IsAtom(re) == re.t \in {"class", "range", "any"}
AtomMatches(re, c) ==
  CASE re.t = "class" -> c \in re.set
    [] re.t = "range" -> CodeUnit[c] >= re.lo /\ CodeUnit[c] <= re.hi
    [] re.t = "any" -> c \notin {"u000A", "u000D", "u2028", "u2029"}

\* The number of characters from position i on that the atom re matches
\* one after another, at most hi of them (hi = -1: no limit).
AtomRun(re, hi, s, i) ==
  LET most == IF hi = -1 \/ hi > Len(s) + 1 - i THEN Len(s) + 1 - i ELSE hi
      runs == {n \in 0..most : \A j \in 0..(n - 1) : AtomMatches(re, s[i + j])}
  IN  CHOOSE n \in runs : \A m \in runs : m <= n

\* The positions at which a match of re that starts at i can end, in the
\* order backtracking tries them.  A concatenation matches its first part
\* and then the rest (the parts are halved, which tries the same ends in the
\* same order); a greedy repetition tries one more round before it stops.
RECURSIVE ReEnds(_, _, _)
ReEnds(re, s, i) ==
  CASE IsAtom(re) -> IF i <= Len(s) /\ AtomMatches(re, s[i]) THEN <<i + 1>> ELSE <<>>
    [] re.t = "cat" ->
         IF re.rs = <<>> THEN <<i>>
         ELSE IF Len(re.rs) = 1 THEN ReEnds(Head(re.rs), s, i)
         ELSE LET half == Len(re.rs) \div 2
                  es == ReEnds(ReCat(SubSeq(re.rs, 1, half)), s, i)
              IN  Flatten([n \in DOMAIN es |->
                             ReEnds(ReCat(SubSeq(re.rs, half + 1, Len(re.rs))), s, es[n])])
    [] re.t = "alt" -> Flatten([k \in DOMAIN re.rs |-> ReEnds(re.rs[k], s, i)])
    [] re.t = "rep" ->
         IF IsAtom(Head(re.rs))
         THEN LET run == AtomRun(Head(re.rs), re.hi, s, i)      \* longest first
              IN  [k \in 1..(run - re.lo + 1) |-> i + run - k + 1]
         ELSE LET es == IF re.hi = 0 THEN <<>> ELSE ReEnds(Head(re.rs), s, i)
                  less == ReRep(Head(re.rs),
                                IF re.lo > 0 THEN re.lo - 1 ELSE 0,
                                IF re.hi > 0 THEN re.hi - 1 ELSE re.hi)
                  more == Flatten([n \in DOMAIN es |-> ReEnds(less, s, es[n])])
              IN  more \o (IF re.lo = 0 THEN <<i>> ELSE <<>>)

\* The least index at which the sequence of booleans f is TRUE, 0 when none.
FirstTrue(f) ==
  IF \E i \in DOMAIN f : f[i]
  THEN CHOOSE i \in DOMAIN f : f[i] /\ \A j \in 1..(i - 1) : ~f[j]
  ELSE 0

\* The leftmost position of s at which re matches, 0 when it matches nowhere.
MatchStart(s, re) == FirstTrue([i \in 1..(Len(s) + 1) |-> ReEnds(re, s, i) # <<>>])

\* The match of re that starts at position i of s; i = 0: no match.
MatchAt(s, re, i) ==
  IF i = 0 THEN <<>> ELSE <<SubSeq(s, i, Head(ReEnds(re, s, i)) - 1)>>

\* text.match(re), for the first match only: <<>> is null, <<m>> the
\* match m, which starts at the leftmost position where re matches.
Match(s, re) == MatchAt(s, re, MatchStart(s, re))

\* s without the characters of S at its two ends.
StripEnds(s, S) ==
  LET kept == {i \in DOMAIN s : s[i] \notin S}
  IN  IF kept = {} THEN <<>>
      ELSE SubSeq(s, CHOOSE i \in kept : \A j \in kept : i <= j,
                     CHOOSE i \in kept : \A j \in kept : j <= i)

\* s.trim()
Trim(s) == StripEnds(s, WhiteSpace)

\* The index of the first occurrence of character c in s, 0 when absent.
IndexOf(s, c) ==
  IF \E i \in DOMAIN s : s[i] = c
  THEN CHOOSE i \in DOMAIN s : s[i] = c /\ \A j \in 1..(i - 1) : s[j] # c
  ELSE 0

\* s.replace(c, "") for a one-character c: the first occurrence is removed.
RemoveFirst(s, c) ==
  LET i == IndexOf(s, c)
  IN  IF i = 0 THEN s ELSE SubSeq(s, 1, i - 1) \o SubSeq(s, i + 1, Len(s))

---------------------------------------------------------------------------
(* The document cheerio.load(html) builds.  A node is an element (tag,     *)
(* attributes, children), a text node, or a JSON-LD script element, whose  *)
(* content is a Script as above.  Tag and attribute names are TLA+ strings, *)
(* attribute values and texts are JavaScript strings.  A document is the    *)
(* sequence of its top-level nodes.                                        *)

Elem(tag, attrs, kids) ==
  [tag |-> tag, attrs |-> attrs, kids |-> kids, text |-> <<>>, script |-> <<>>]
Text(s) ==
  [tag |-> "#text", attrs |-> <<>>, kids |-> <<>>, text |-> s, script |-> <<>>]
JsonLdScript(el) ==
  [tag |-> "script", attrs |-> <<Member("type", <<"a", "p", "p", "l", "i", "c", "a", "t", "i", "o", "n", "/", "l", "d", "+", "j", "s", "o", "n">>)>>,
   kids |-> <<>>, text |-> <<>>, script |-> <<el>>]

\* The elements below the nodes ns, in document order.
RECURSIVE Descendants(_)
Descendants(ns) ==
  IF ns = <<>> THEN <<>>
  ELSE (IF ns[1].tag = "#text" THEN <<>> ELSE <<ns[1]>> \o Descendants(ns[1].kids))
         \o Descendants(Tail(ns))

\* .text(): the text nodes below the nodes ns, concatenated.  The text of a
\* script element is not part of the model's text.
RECURSIVE TextOf(_)
TextOf(ns) ==
  IF ns = <<>> THEN <<>>
  ELSE (IF ns[1].tag = "#text" THEN ns[1].text ELSE TextOf(ns[1].kids))
         \o TextOf(Tail(ns))

HasAttr(e, name) == \E i \in DOMAIN e.attrs : e.attrs[i].k = name

\* $(el).attr(name): the attribute's value, undefined when absent.
Attr(e, name) ==
  IF HasAttr(e, name) THEN JStr(MemberGet(e.attrs, name)) ELSE Undefined

\* a || b
Or(a, b) == IF Truthy(a) THEN a ELSE b

\* s.slice(0, n)
SliceTo(s, n) == SubSeq(s, 1, Min(n, Len(s)))

\* The index of the last occurrence of character c in s, 0 when absent.
LastIndexOf(s, c) ==
  IF \E i \in DOMAIN s : s[i] = c
  THEN CHOOSE i \in DOMAIN s : s[i] = c /\ \A j \in (i + 1)..Len(s) : s[j] # c
  ELSE 0

\* s.split(c).pop() and s.split(c)[0] for a one-character separator c.
AfterLast(s, c) == SubSeq(s, LastIndexOf(s, c) + 1, Len(s))

BeforeFirst(s, c) ==
  LET i == IndexOf(s, c)
  IN  IF i = 0 THEN s ELSE SubSeq(s, 1, i - 1)

\* props[name] = value on a plain object: a new key is appended, an
\* existing key keeps its place and takes the new value.
SetMember(ms, k, v) ==
  IF \E i \in DOMAIN ms : ms[i].k = k
  THEN [i \in DOMAIN ms |-> IF ms[i].k = k THEN Member(k, v) ELSE ms[i]]
  ELSE Append(ms, Member(k, v))

---------------------------------------------------------------------------
(* new SchemaExtractor(html, url) (extract-schema.ts:92-100).              *)

AsciiUpper == <<"A", "B", "C", "D", "E", "F", "G", "H", "I", "J", "K", "L", "M", "N", "O", "P", "Q", "R", "S", "T", "U", "V", "W", "X", "Y", "Z">>
AsciiLower == <<"a", "b", "c", "d", "e", "f", "g", "h", "i", "j", "k", "l", "m", "n", "o", "p", "q", "r", "s", "t", "u", "v", "w", "x", "y", "z">>

ToLowerChar(c) ==
  IF \E i \in DOMAIN AsciiUpper : AsciiUpper[i] = c
  THEN AsciiLower[CHOOSE i \in DOMAIN AsciiUpper : AsciiUpper[i] = c]
  ELSE c

ToLower(s) == [i \in DOMAIN s |-> ToLowerChar(s[i])]

\* scheme ":" at the start of a URL
SchemeRe ==
  ReCat(<<ReClass(Range(AsciiUpper) \cup Range(AsciiLower)),
          ReRep(ReClass(Range(AsciiUpper) \cup Range(AsciiLower) \cup Digits
                           \cup {"+", "-", "."}), 0, -1),
          ReClass({":"})>>)

\* The part of s before the first character of the set S.
UpTo(s, S) ==
  LET stops == {i \in DOMAIN s : s[i] \in S}
  IN  IF stops = {} THEN s
      ELSE SubSeq(s, 1, (CHOOSE i \in stops : \A j \in stops : i <= j) - 1)

\* s without the characters of S it starts with.
SkipAll(s, S) ==
  LET kept == {i \in DOMAIN s : s[i] \notin S}
  IN  IF kept = {} THEN <<>>
      ELSE SubSeq(s, CHOOSE i \in kept : \A j \in kept : i <= j, Len(s))

\* Characters a host may not hold.
ForbiddenHost ==
  {" ", "#", "/", ":", "<", ">", "?", "@", "[", "\\", "]", "^", "|", "%"}

URLFailure == [failure |-> TRUE, hostname |-> <<>>]
URLRecord(host) == [failure |-> FALSE, hostname |-> host]

\* The host of an http(s) URL whose host and port are given.
SpecialHost(host, port) ==
  IF host = <<>> \/ Range(host) \cap ForbiddenHost # {} \/ ~(Range(port) \subseteq Digits)
  THEN URLFailure
  ELSE URLRecord(ToLower(host))

\* host[:port], split at its last colon (colon = 0: there is none).
SplitPort(hostport, colon) ==
  IF colon = 0 THEN SpecialHost(hostport, <<>>)
  ELSE SpecialHost(SubSeq(hostport, 1, colon - 1),
                   SubSeq(hostport, colon + 1, Len(hostport)))

HostPort(hostport) == SplitPort(hostport, LastIndexOf(hostport, ":"))

\* [userinfo@]host[:port]
Authority(auth) == HostPort(SubSeq(auth, LastIndexOf(auth, "@") + 1, Len(auth)))

\* The URL whose scheme (lower-cased) is followed by rest.
AfterScheme(scheme, rest) ==
  IF scheme \in {<<"h", "t", "t", "p">>, <<"h", "t", "t", "p", "s">>}
  THEN Authority(UpTo(SkipAll(rest, {"/", "\\"}), {"/", "\\", "?", "#"}))
  ELSE IF StartsWith(rest, <<"/", "/">>)
  THEN URLRecord(UpTo(SubSeq(rest, 3, Len(rest)), {"/", "?", "#"}))
  ELSE URLRecord(<<>>)

\* s starts with a scheme whose ":" is at position colon - 1 (colon = 0: s
\* has no scheme).
SplitScheme(s, colon) ==
  IF colon = 0 THEN URLFailure
  ELSE AfterScheme(ToLower(SubSeq(s, 1, colon - 2)), SubSeq(s, colon, Len(s)))


Stripped(s) ==
  SplitScheme(s, IF ReEnds(SchemeRe, s, 1) = <<>> THEN 0 ELSE Head(ReEnds(SchemeRe, s, 1)))

\* new URL(url) without a base, as far as its hostname goes: a URL needs a
\* scheme; an http(s) URL needs a non-empty host, which is lower-cased;
\* user info and port are not part of the hostname; spaces and control
\* characters at the ends of the input are dropped.  (Hosts of the model
\* are ASCII: IDNA conversion is left out.)
URL(input) == Stripped(StripEnds(input, {" ", "u0009", "u000A", "u000D"}))

\* The constructor with the try/catch of lines 95-99 left out: the
\* TypeError of new URL leaves the constructor.
tryHostname_NoCatch(parsed) ==
  [threw |-> parsed.failure, domain |-> IF parsed.failure THEN <<>> ELSE parsed.hostname]

\* The try/catch of lines 95-99 around this.domain = new URL(url).hostname,
\* parsed being the outcome of new URL(url): the catch block sets "".
tryHostname(parsed) ==
  [threw |-> FALSE, domain |-> IF parsed.failure THEN <<>> ELSE parsed.hostname]

\* The completion of the constructor: threw, and the extractor's fields.
Constructed(h, given, try) ==
  [threw |-> try.threw, dom |-> h, url |-> given, domain |-> try.domain]

ExtractorOf(h, given) == Constructed(h, given, tryHostname(URL(given)))

\* new SchemaExtractor(html, url): url defaults to "" when the argument is
\* undefined, domain is "" when new URL(url) throws.
SchemaExtractor(h, u) == ExtractorOf(h, IF u = Undefined THEN <<>> ELSE u.s)

---------------------------------------------------------------------------
(* extractMicrodata and extractRdfa (extract-schema.ts:222-293).           *)

\* The value of an itemprop element (lines 236-240).
microdataValue(propEl) ==
  Or(Attr(propEl, "content"),
     Or(Attr(propEl, "href"),
        Or(Attr(propEl, "src"), JStr(SliceTo(Trim(TextOf(propEl.kids)), 100)))))

\* The itemprop loop keeping the first value of a name.
RECURSIVE microdataProps_FirstWins(_, _)
microdataProps_FirstWins(propEls, ps) ==
  IF propEls = <<>> THEN ps
  ELSE microdataProps_FirstWins(
         Tail(propEls),
         IF /\ Truthy(Attr(Head(propEls), "itemprop"))
            /\ MemberGet(ps, Attr(Head(propEls), "itemprop").s) = Undefined
         THEN SetMember(ps, Attr(Head(propEls), "itemprop").s, microdataValue(Head(propEls)))
         ELSE ps)

\* The callback of find("[itemprop]").each (lines 234-244), from left to right.
RECURSIVE microdataProps(_, _)
microdataProps(propEls, ps) ==
  IF propEls = <<>> THEN ps
  ELSE microdataProps(Tail(propEls),
                      IF Truthy(Attr(Head(propEls), "itemprop"))
                      THEN SetMember(ps, Attr(Head(propEls), "itemprop").s,
                                     microdataValue(Head(propEls)))
                      ELSE ps)

\* An item whose evaluation is r = <<label, note>>.
Item(type, source, ps, r) ==
  [schemaType |-> type,
   source |-> source,
   properties |-> ps,
   raw |-> 0,
   evalLabel |-> r[1],
   evalNote |-> r[2]]

Evaluated(type, source, ps) == Item(type, source, ps, evaluateSchema(type, ps))

\* schemaType of an [itemscope] element whose itemtype is given (lines 227-229).
microdataType(itemtype) ==
  IF itemtype # <<>>
  THEN Or(JStr(AfterLast(itemtype, "/")), JStr(Unknown)).s
  ELSE Unknown

\* The item of one [itemscope] element (lines 226-254).
microdataItem(el) ==
  Evaluated(microdataType(Or(Attr(el, "itemtype"), JStr(<<>>)).s),
            "microdata",
            microdataProps(SelectSeq(Descendants(el.kids),
                                     LAMBDA e : HasAttr(e, "itemprop")),
                           <<>>))

extractMicrodata(dom) ==
  LET els == SelectSeq(Descendants(dom), LAMBDA e : HasAttr(e, "itemscope"))
  IN  [i \in DOMAIN els |-> microdataItem(els[i])]

\* The value of a [property] element (lines 273-275).
rdfaValue(propEl) ==
  Or(Attr(propEl, "content"), JStr(SliceTo(Trim(TextOf(propEl.kids)), 100)))

\* The name of a [property] element (lines 271-272).
rdfaName(propEl) == AfterLast(Or(Attr(propEl, "property"), JStr(<<>>)).s, ":")

\* The callback of find("[property]").each (lines 270-279), from left to right.
RECURSIVE rdfaProps(_, _)
rdfaProps(propEls, ps) ==
  IF propEls = <<>> THEN ps
  ELSE rdfaProps(Tail(propEls),
                 IF rdfaName(Head(propEls)) # <<>>
                 THEN SetMember(ps, rdfaName(Head(propEls)), rdfaValue(Head(propEls)))
                 ELSE ps)

\* rdfaItem stripping the prefix of the typeof value.
rdfaItem_StripsPrefix(el) ==
  Evaluated(Or(JStr(AfterLast(Or(Attr(el, "typeof"), JStr(<<>>)).s, ":")), JStr(Unknown)).s,
            "rdfa",
            rdfaProps(SelectSeq(Descendants(el.kids), LAMBDA e : HasAttr(e, "property")),
                      <<>>))

\* The item of one [typeof] element (lines 265-289).
rdfaItem(el) ==
  Evaluated(Or(Attr(el, "typeof"), JStr(Unknown)).s,
            "rdfa",
            rdfaProps(SelectSeq(Descendants(el.kids), LAMBDA e : HasAttr(e, "property")),
                      <<>>))

extractRdfa(dom) ==
  LET els == SelectSeq(Descendants(dom), LAMBDA e : HasAttr(e, "typeof"))
  IN  [i \in DOMAIN els |-> rdfaItem(els[i])]

\* The script elements $('script[type="application/ld+json"]') selects.
JsonLdScripts(dom) ==
  LET els == SelectSeq(Descendants(dom), LAMBDA e : e.script # <<>>)
  IN  [i \in DOMAIN els |-> els[i].script[1]]

---------------------------------------------------------------------------
(* extractPageInfo (extract-schema.ts:296-333).                            *)

ReDigit == ReClass(Digits)
ReSep == ReRep(ReClass({"-"} \cup WhiteSpace), 0, 1)     \* [-\s]?
ReSpaces == ReRep(ReClass(WhiteSpace), 0, -1)            \* \s*

\* /(?:0\d{1,4}[-\s]?\d{1,4}[-\s]?\d{4}|\+81[-\s]?\d+[-\s]?\d+[-\s]?\d+)/g
PhoneRe ==
  ReAlt(<<ReCat(<<ReClass({"0"}), ReRep(ReDigit, 1, 4), ReSep, ReRep(ReDigit, 1, 4),
                  ReSep, ReRep(ReDigit, 4, 4)>>),
          ReCat(<<ReLit(<<"+", "8", "1">>), ReSep, ReRep(ReDigit, 1, -1), ReSep,
                  ReRep(ReDigit, 1, -1), ReSep, ReRep(ReDigit, 1, -1)>>)>>)

PostalMark == "u3012"

\* /〒\s*\d{3}[-\s]?\d{4}/g
PostalRe ==
  ReCat(<<ReClass({PostalMark}), ReSpaces, ReRep(ReDigit, 3, 3), ReSep,
          ReRep(ReDigit, 4, 4)>>)

\* /(東京都|大阪府|京都府|北海道|[一-鿿]{2,3}(?:県|都|府|道)).{2,50}(?:丁目|番地|号|ビル|棟)/
AddressRe ==
  ReCat(<<ReAlt(<<ReLit(<<"u6771", "u4EAC", "u90FD">>), ReLit(<<"u5927", "u962A", "u5E9C">>), ReLit(<<"u4EAC", "u90FD", "u5E9C">>),
                  ReLit(<<"u5317", "u6D77", "u9053">>),
                  ReCat(<<ReRep(ReRange(19968, 40959), 2, 3),
                          ReClass(Range(<<"u770C", "u90FD", "u5E9C", "u9053">>))>>)>>),
          ReRep(ReAny, 2, 50),
          ReAlt(<<ReLit(<<"u4E01", "u76EE">>), ReLit(<<"u756A", "u5730">>), ReLit(<<"u53F7">>), ReLit(<<"u30D3", "u30EB">>),
                  ReLit(<<"u68DF">>)>>)>>)

\* /\d{1,2}:\d{2}\s*[〜~\-]\s*\d{1,2}:\d{2}/g
HoursRe ==
  ReCat(<<ReRep(ReDigit, 1, 2), ReClass({":"}), ReRep(ReDigit, 2, 2), ReSpaces,
          ReClass({"u301C", "~", "-"}), ReSpaces,
          ReRep(ReDigit, 1, 2), ReClass({":"}), ReRep(ReDigit, 2, 2)>>)

\* m ? m[0] : ""
FirstOrEmpty(m) == IF m # <<>> THEN Head(m) ELSE <<>>

\* postal ? postal[0].replace("〒", "").trim() : ""
PostalCode(postal) ==
  IF postal # <<>> THEN Trim(RemoveFirst(Head(postal), PostalMark)) ELSE <<>>

\* title.length ? title.text().trim() : ""
TitleText(title) == IF Len(title) > 0 THEN Trim(TextOf(title)) ELSE <<>>

\* The info object built from the title elements and the text of the page.
PageInfo(title, text, url_, domain_) ==
  <<Member(<<"t", "i", "t", "l", "e">>, JStr(TitleText(title))),
    Member(<<"t", "e", "l", "e", "p", "h", "o", "n", "e">>, JStr(FirstOrEmpty(Match(text, PhoneRe)))),
    Member(<<"p", "o", "s", "t", "a", "l", "_", "c", "o", "d", "e">>, JStr(PostalCode(Match(text, PostalRe)))),
    Member(<<"a", "d", "d", "r", "e", "s", "s">>, JStr(FirstOrEmpty(Match(text, AddressRe)))),
    Member(<<"o", "p", "e", "n", "i", "n", "g", "_", "h", "o", "u", "r", "s">>, JStr(FirstOrEmpty(Match(text, HoursRe)))),
    Member(<<"u", "r", "l">>, JStr(url_)),
    Member(<<"d", "o", "m", "a", "i", "n">>, JStr(domain_))>>

\* extractPageInfo leaving out the keys for which nothing was found.
extractPageInfo_NoDefaults(ex) ==
  SelectSeq(PageInfo(SelectSeq(Descendants(ex.dom), LAMBDA e : e.tag = "title"),
                     TextOf(ex.dom), ex.url, ex.domain),
            LAMBDA m : m.v.s # <<>>)

extractPageInfo(ex) ==
  PageInfo(SelectSeq(Descendants(ex.dom), LAMBDA e : e.tag = "title"),
           TextOf(ex.dom), ex.url, ex.domain)

---------------------------------------------------------------------------
(* SchemaAuditor.generateJsonLd (extract-schema.ts:467-592).               *)

Snippet(type, schema) == [priority |-> <<"u9AD8">>, type |-> type, schema |-> schema]

SchemaOrg == Member(<<"@", "c", "o", "n", "t", "e", "x", "t">>, JStr(<<"h", "t", "t", "p", "s", ":", "/", "/", "s", "c", "h", "e", "m", "a", ".", "o", "r", "g">>))
TypeOf(type) == Member(<<"@", "t", "y", "p", "e">>, JStr(type))

\* info[key] || ""
InfoOrEmpty(info, key) == Or(MemberGet(info, key), JStr(<<>>)).s

\* info[key] without the || placeholder.
InfoOr_NoPlaceholder(info, key, placeholder) == JStr(InfoOrEmpty(info, key))

\* info[key] || placeholder
InfoOr(info, key, placeholder) == Or(MemberGet(info, key), JStr(placeholder))

AllWeek ==
  <<<<"M", "o", "n", "d", "a", "y">>, <<"T", "u", "e", "s", "d", "a", "y">>, <<"W", "e", "d", "n", "e", "s", "d", "a", "y">>, <<"T", "h", "u", "r", "s", "d", "a", "y">>, <<"F", "r", "i", "d", "a", "y">>,
    <<"S", "a", "t", "u", "r", "d", "a", "y">>, <<"S", "u", "n", "d", "a", "y">>>>

\* The openingHoursSpecification of the snippet (lines 498-513).
openingHoursSpecification(info) ==
  JArr(<<JObj(<<TypeOf(<<"O", "p", "e", "n", "i", "n", "g", "H", "o", "u", "r", "s", "S", "p", "e", "c", "i", "f", "i", "c", "a", "t", "i", "o", "n">>),
                Member(<<"d", "a", "y", "O", "f", "W", "e", "e", "k">>, JArr([i \in DOMAIN AllWeek |-> JStr(AllWeek[i])])),
                Member(<<"o", "p", "e", "n", "s">>, JStr(<<"0", "0", ":", "0", "0">>)),
                Member(<<"c", "l", "o", "s", "e", "s">>, JStr(<<"2", "3", ":", "5", "9">>))>>)>>)

\* lbSchema (lines 483-521)
lbSchema(info) ==
  JObj(<<SchemaOrg,
         TypeOf(<<"F", "u", "n", "e", "r", "a", "l", "H", "o", "m", "e">>),
         Member(<<"n", "a", "m", "e">>,
                Or(JStr(Trim(BeforeFirst(InfoOrEmpty(info, <<"t", "i", "t", "l", "e">>), "|"))),
                   JStr(<<"uFF08", "u30B5", "u30A4", "u30C8", "u30BF", "u30A4", "u30C8", "u30EB", "u304B", "u3089", "u53D6", "u5F97", "uFF09">>))),
         Member(<<"u", "r", "l">>, JStr(InfoOrEmpty(info, <<"u", "r", "l">>))),
         Member(<<"t", "e", "l", "e", "p", "h", "o", "n", "e">>, InfoOr(info, <<"t", "e", "l", "e", "p", "h", "o", "n", "e">>, <<"uFF08", "u96FB", "u8A71", "u756A", "u53F7", "u3092", "u5165", "u529B", "uFF09">>)),
         Member(<<"a", "d", "d", "r", "e", "s", "s">>,
                JObj(<<TypeOf(<<"P", "o", "s", "t", "a", "l", "A", "d", "d", "r", "e", "s", "s">>),
                       Member(<<"s", "t", "r", "e", "e", "t", "A", "d", "d", "r", "e", "s", "s">>,
                              InfoOr(info, <<"a", "d", "d", "r", "e", "s", "s">>, <<"uFF08", "u4F4F", "u6240", "u3092", "u5165", "u529B", "uFF09">>)),
                       Member(<<"p", "o", "s", "t", "a", "l", "C", "o", "d", "e">>,
                              InfoOr(info, <<"p", "o", "s", "t", "a", "l", "_", "c", "o", "d", "e">>, <<"uFF08", "u90F5", "u4FBF", "u756A", "u53F7", "u3092", "u5165", "u529B", "uFF09">>)),
                       Member(<<"a", "d", "d", "r", "e", "s", "s", "R", "e", "g", "i", "o", "n">>, JStr(<<"uFF08", "u90FD", "u9053", "u5E9C", "u770C", "u3092", "u5165", "u529B", "uFF09">>)),
                       Member(<<"a", "d", "d", "r", "e", "s", "s", "C", "o", "u", "n", "t", "r", "y">>, JStr(<<"J", "P">>))>>)),
         Member(<<"o", "p", "e", "n", "i", "n", "g", "H", "o", "u", "r", "s", "S", "p", "e", "c", "i", "f", "i", "c", "a", "t", "i", "o", "n">>, openingHoursSpecification(info)),
         Member(<<"p", "r", "i", "c", "e", "R", "a", "n", "g", "e">>, JStr(<<"u00A5", "u00A5">>)),
         Member(<<"i", "m", "a", "g", "e">>,
                JStr(InfoOrEmpty(info, <<"u", "r", "l">>) \o <<"uFF08", "O", "G", "P", "u753B", "u50CF", "U", "R", "L", "u3092", "u5165", "u529B", "uFF09">>)),
         Member(<<"d", "e", "s", "c", "r", "i", "p", "t", "i", "o", "n">>, JStr(<<"uFF08", "u30E1", "u30BF", "u30C7", "u30A3", "u30B9", "u30AF", "u30EA", "u30D7", "u30B7", "u30E7", "u30F3", "u3092", "u5165", "u529B", "uFF09">>)),
         Member(<<"s", "a", "m", "e", "A", "s">>,
                JArr(<<JStr(<<"uFF08", "G", "o", "o", "g", "l", "e", "u30D3", "u30B8", "u30CD", "u30B9", "u30D7", "u30ED", "u30D5", "u30A3", "u30FC", "u30EB", "U", "R", "L", "u3092", "u5165", "u529B", "uFF09">>),
                       JStr(<<"uFF08", "F", "a", "c", "e", "b", "o", "o", "k", "u30DA", "u30FC", "u30B8", "U", "R", "L", "u3092", "u5165", "u529B", "uFF09">>)>>))>>)

\* s.replace(/\/$/, "")
DropFinalSlash(s) ==
  IF s # <<>> /\ s[Len(s)] = "/" THEN SubSeq(s, 1, Len(s) - 1) ELSE s

ListItem(position, name, item) ==
  JObj(<<TypeOf(<<"L", "i", "s", "t", "I", "t", "e", "m">>),
         Member(<<"p", "o", "s", "i", "t", "i", "o", "n">>, JPrim(DecStr(position))),
         Member(<<"n", "a", "m", "e">>, JStr(name)),
         Member(<<"i", "t", "e", "m">>, JStr(item))>>)

\* bcSchema (lines 531-549)
bcSchema(info) ==
  JObj(<<SchemaOrg,
         TypeOf(BreadcrumbList),
         Member(<<"i", "t", "e", "m", "L", "i", "s", "t", "E", "l", "e", "m", "e", "n", "t">>,
                JArr(<<ListItem(1, <<"u30DB", "u30FC", "u30E0">>,
                                DropFinalSlash(InfoOrEmpty(info, <<"u", "r", "l">>)) \o <<"/">>),
                       ListItem(2, <<"uFF08", "u73FE", "u5728", "u306E", "u30DA", "u30FC", "u30B8", "u540D", "u3092", "u5165", "u529B", "uFF09">>,
                                InfoOrEmpty(info, <<"u", "r", "l">>)
                                  \o <<"uFF08", "u73FE", "u5728", "u306E", "u30DA", "u30FC", "u30B8", "U", "R", "L", "u3092", "u5165", "u529B", "uFF09">>)>>))>>)

Question(name, text) ==
  JObj(<<TypeOf(<<"Q", "u", "e", "s", "t", "i", "o", "n">>),
         Member(<<"n", "a", "m", "e">>, JStr(name)),
         Member(<<"a", "c", "c", "e", "p", "t", "e", "d", "A", "n", "s", "w", "e", "r">>,
                JObj(<<TypeOf(<<"A", "n", "s", "w", "e", "r">>), Member(<<"t", "e", "x", "t">>, JStr(text))>>))>>)

\* faqSchema (lines 564-585)
faqSchema ==
  JObj(<<SchemaOrg,
         TypeOf(FAQPage),
         Member(<<"m", "a", "i", "n", "E", "n", "t", "i", "t", "y">>,
                JArr(<<Question(<<"uFF08", "F", "A", "Q", "u306E", "u8CEA", "u554F", "1", "u3092", "u5165", "u529B", "uFF09">>, <<"uFF08", "F", "A", "Q", "u306E", "u56DE", "u7B54", "1", "u3092", "u5165", "u529B", "uFF09">>),
                       Question(<<"uFF08", "F", "A", "Q", "u306E", "u8CEA", "u554F", "2", "u3092", "u5165", "u529B", "uFF09">>, <<"uFF08", "F", "A", "Q", "u306E", "u56DE", "u7B54", "2", "u3092", "u5165", "u529B", "uFF09">>)>>))>>)

\* The snippets generateJsonLd pushes onto result.generatedJsonLd, given
\* result.foundSchemas, result.pageInfo, the found-type set and $.text().
\* generateJsonLd with the FAQPage block placed first.
generateJsonLd_FaqFirst(found, info, types, text) ==
  PushIf(SomeIncluded(<<<<"u3088", "u304F", "u3042", "u308B", "u8CEA", "u554F">>, <<"F", "A", "Q">>, <<"Q", "&", "A">>>>, text) /\ FAQPage \notin types,
         Snippet(FAQPage, faqSchema))
    \o PushIf((\A i \in DOMAIN FUNERAL_HOME_TYPES : FUNERAL_HOME_TYPES[i] \notin types)
                \/ \E i \in DOMAIN found :
                     /\ found[i].schemaType \in Range(FUNERAL_HOME_TYPES)
                     /\ found[i].evalLabel = EVAL_WARN,
              Snippet(<<"F", "u", "n", "e", "r", "a", "l", "H", "o", "m", "e", "uFF08", "L", "o", "c", "a", "l", "B", "u", "s", "i", "n", "e", "s", "s", "u6D3E", "u751F", "uFF09">>, lbSchema(info)))
    \o PushIf(BreadcrumbList \notin types, Snippet(BreadcrumbList, bcSchema(info)))

\* generateJsonLd without the second operand of the condition of lines
\* 475-482: the snippet is generated only when the family is absent.
generateJsonLd_NoWarnClause(found, info, types, text) ==
  PushIf(\A i \in DOMAIN FUNERAL_HOME_TYPES : FUNERAL_HOME_TYPES[i] \notin types,
         Snippet(<<"F", "u", "n", "e", "r", "a", "l", "H", "o", "m", "e", "uFF08", "L", "o", "c", "a", "l", "B", "u", "s", "i", "n", "e", "s", "s", "u6D3E", "u751F", "uFF09">>, lbSchema(info)))
    \o PushIf(BreadcrumbList \notin types, Snippet(BreadcrumbList, bcSchema(info)))
    \o PushIf(SomeIncluded(<<<<"u3088", "u304F", "u3042", "u308B", "u8CEA", "u554F">>, <<"F", "A", "Q">>, <<"Q", "&", "A">>>>, text)
                /\ FAQPage \notin types,
              Snippet(FAQPage, faqSchema))

\* generateJsonLd without the test of line 529: the BreadcrumbList snippet
\* is generated for every page.
generateJsonLd_AlwaysBreadcrumb(found, info, types, text) ==
  PushIf((\A i \in DOMAIN FUNERAL_HOME_TYPES : FUNERAL_HOME_TYPES[i] \notin types)
           \/ \E i \in DOMAIN found :
                /\ found[i].schemaType \in Range(FUNERAL_HOME_TYPES)
                /\ found[i].evalLabel = EVAL_WARN,
         Snippet(<<"F", "u", "n", "e", "r", "a", "l", "H", "o", "m", "e", "uFF08", "L", "o", "c", "a", "l", "B", "u", "s", "i", "n", "e", "s", "s", "u6D3E", "u751F", "uFF09">>, lbSchema(info)))
    \o <<Snippet(BreadcrumbList, bcSchema(info))>>
    \o PushIf(SomeIncluded(<<<<"u3088", "u304F", "u3042", "u308B", "u8CEA", "u554F">>, <<"F", "A", "Q">>, <<"Q", "&", "A">>>>, text)
                /\ FAQPage \notin types,
              Snippet(FAQPage, faqSchema))

generateJsonLd(found, info, types, text) ==
  LET hasLb == \E i \in DOMAIN FUNERAL_HOME_TYPES : FUNERAL_HOME_TYPES[i] \in types
      weak == \E i \in DOMAIN found :
                /\ found[i].schemaType \in Range(FUNERAL_HOME_TYPES)
                /\ found[i].evalLabel = EVAL_WARN
      faqIndicators == <<<<"u3088", "u304F", "u3042", "u308B", "u8CEA", "u554F">>, <<"F", "A", "Q">>, <<"Q", "&", "A">>>>
      hasFaqContent == SomeIncluded(faqIndicators, text)
  IN  PushIf(~hasLb \/ weak,
             Snippet(<<"F", "u", "n", "e", "r", "a", "l", "H", "o", "m", "e", "uFF08", "L", "o", "c", "a", "l", "B", "u", "s", "i", "n", "e", "s", "s", "u6D3E", "u751F", "uFF09">>, lbSchema(info)))
        \o PushIf(BreadcrumbList \notin types, Snippet(BreadcrumbList, bcSchema(info)))
        \o PushIf(hasFaqContent /\ FAQPage \notin types, Snippet(FAQPage, faqSchema))

---------------------------------------------------------------------------
(* SchemaAuditor.audit (extract-schema.ts:347-378).                        *)

\* new Set(result.foundSchemas.map((s) => s.schemaType))
FoundTypesOf(found) == {found[i].schemaType : i \in DOMAIN found}

\* The result once the items, the page info and the found types are known.
AuditResult(url_, found, info, types, text) ==
  [url |-> url_,
   foundSchemas |-> found,
   missingHigh |-> missingHighGaps(types, text),
   missingMid |-> missingMidGaps(types, text),
   missingLow |-> missingLowGaps(types),
   generatedJsonLd |-> generateJsonLd(found, info, types, text),
   pageInfo |-> info]

\* const pageInfo = this.extractor.extractPageInfo() comes first (line 366);
\* the result is built from its value.
auditFound(ex, found) ==
  CHOOSE r \in {AuditResult(ex.url, found, info, FoundTypesOf(found), TextOf(ex.dom)) :
                  info \in {extractPageInfo(ex)}} : TRUE

\* audit() raising when the three extractions find no item.
auditAfter_NoItemsIsError(ex, c) ==
  IF c.threw \/ c.pushed \o extractMicrodata(ex.dom) \o extractRdfa(ex.dom) = <<>>
  THEN [threw |-> TRUE, value |-> <<>>]
  ELSE [threw |-> FALSE,
        value |-> auditFound(ex, c.pushed \o extractMicrodata(ex.dom)
                                   \o extractRdfa(ex.dom))]

\* audit() once extractJsonLd has completed with c: an exception of
\* extractJsonLd leaves audit(), nothing else in audit() throws.
auditAfter(ex, c) ==
  IF c.threw THEN [threw |-> TRUE, value |-> <<>>]
  ELSE [threw |-> FALSE,
        value |-> auditFound(ex, c.pushed \o extractMicrodata(ex.dom)
                                   \o extractRdfa(ex.dom))]

\* The completion of audit() for the extractor ex: threw, and the result
\* returned.
audit(ex) == auditAfter(ex, extractJsonLd(JsonLdScripts(ex.dom)))


---------------------------------------------------------------------------
(* formatAuditReport (extract-schema.ts:600-673).                          *)

NewLine == "u000A"

Spaces(n) == [i \in 1..n |-> " "]

DoubleQuote == "u0022"

\* The JSON text of a string: quote and backslash are escaped, a line
\* feed is written \n.
Escaped(s) ==
  Flatten([i \in DOMAIN s |->
             CASE s[i] = DoubleQuote -> <<"\\", DoubleQuote>>
               [] s[i] = "\\" -> <<"\\", "\\">>
               [] s[i] = NewLine -> <<"\\", "n">>
               [] OTHER -> <<s[i]>>])

Quoted(s) == <<DoubleQuote>> \o Escaped(s) \o <<DoubleQuote>>

\* JSON.stringify(v, null, 2) for a value v written at depth indent.
RECURSIVE Stringify(_, _)
Stringify(v, indent) ==
  CASE v.j = "str" -> Quoted(v.s)
    [] v.j = "prim" -> v.s
    [] v.j \in {"null", "undefined"} -> <<"n", "u", "l", "l">>
    [] v.j = "arr" ->
         IF v.a = <<>> THEN <<"[", "]">>
         ELSE <<"[", NewLine>>
                \o Join([i \in DOMAIN v.a |->
                           Spaces(indent + 2) \o Stringify(v.a[i], indent + 2)],
                        <<",", NewLine>>)
                \o <<NewLine>> \o Spaces(indent) \o <<"]">>
    [] v.j = "obj" ->
         LET ms == SelectSeq(v.m, LAMBDA e : e.v.j # "undefined")
         IN  IF ms = <<>> THEN <<"{", "}">>
             ELSE <<"{", NewLine>>
                    \o Join([i \in DOMAIN ms |->
                               Spaces(indent + 2) \o Quoted(ms[i].k) \o <<":", " ">>
                                 \o Stringify(ms[i].v, indent + 2)],
                            <<",", NewLine>>)
                    \o <<NewLine>> \o Spaces(indent) \o <<"}">>

\* The text of an item's source field.
SourceText(source) ==
  CASE source = "json-ld" -> <<"j", "s", "o", "n", "-", "l", "d">>
    [] source = "microdata" -> <<"m", "i", "c", "r", "o", "d", "a", "t", "a">>
    [] source = "rdfa" -> <<"r", "d", "f", "a">>

\* The table row of a found item (lines 618-621).
foundRow(s) ==
  <<"|", " ">> \o s.schemaType \o <<" ", "|", " ">> \o SourceText(s.source) \o <<" ", "|", " ">>
    \o Join(SliceTo([i \in DOMAIN s.properties |-> s.properties[i].k], 6), <<",", " ">>)
    \o <<" ", "|", " ">> \o s.evalLabel \o <<" ", "|", " ">> \o s.evalNote \o <<" ", "|">>

\* The table row of a gap (lines 637-645); mark is the priority cell.
gapRow(mark, item) ==
  <<"|", " ">> \o mark \o <<" ", "|", " ">> \o item.type \o <<" ", "|", " ">> \o item.reason \o <<" ", "|">>

\* The lines of one snippet (lines 664-669).
snippetLines(item) ==
  <<<<"#", "#", "#", " ">> \o item.type, <<>>, <<"u0060", "u0060", "u0060", "j", "s", "o", "n">>, Stringify(item.schema, 0),
    <<"u0060", "u0060", "u0060">>, <<>>>>

reportLines(res) ==
  <<<<"#", " ", "u69CB", "u9020", "u5316", "u30C7", "u30FC", "u30BF", "uFF08", "S", "c", "h", "e", "m", "a", "uFF09", "u76E3", "u67FB", "u30EC", "u30DD", "u30FC", "u30C8">>, <<>>,
    <<"*", "*", "u5BFE", "u8C61", "U", "R", "L", ":", "*", "*", " ">> \o res.url, <<>>, <<"-", "-", "-">>, <<>>,
    <<"#", "#", " ", "u65E2", "u5B58", "S", "c", "h", "e", "m", "a", "u4E00", "u89A7">>, <<>>>>
    \o (IF Len(res.foundSchemas) > 0
        THEN <<<<"|", " ", "S", "c", "h", "e", "m", "a", "u7A2E", "u5225", " ", "|", " ", "u30BD", "u30FC", "u30B9", " ", "|", " ", "u4E3B", "u8981", "u30D7", "u30ED", "u30D1", "u30C6", "u30A3", " ", "|", " ", "u8A55", "u4FA1", " ", "|", " ", "u5099", "u8003", " ", "|">>,
               <<"|", "-", "-", "-", "|", "-", "-", "-", "|", "-", "-", "-", "|", "-", "-", "-", "|", "-", "-", "-", "|">>>>
               \o [i \in DOMAIN res.foundSchemas |-> foundRow(res.foundSchemas[i])]
        ELSE <<<<"*", "*", "u69CB", "u9020", "u5316", "u30C7", "u30FC", "u30BF", "u306F", "u691C", "u51FA", "u3055", "u308C", "u307E", "u305B", "u3093", "u3067", "u3057", "u305F", "u3002", "*", "*">>>>)
    \o <<<<>>, <<"-", "-", "-">>, <<>>, <<"#", "#", " ", "u4E0D", "u8DB3", "u30FB", "u5F31", "u3044", "S", "c", "h", "e", "m", "a", "uFF08", "u512A", "u5148", "u5EA6", "u4ED8", "u304D", "uFF09">>, <<>>,
         <<"|", " ", "u512A", "u5148", "u5EA6", " ", "|", " ", "S", "c", "h", "e", "m", "a", "u7A2E", "u5225", " ", "|", " ", "u7406", "u7531", " ", "|">>, <<"|", "-", "-", "-", "|", "-", "-", "-", "|", "-", "-", "-", "|">>>>
    \o [i \in DOMAIN res.missingHigh |-> gapRow(<<"*", "*", "u9AD8", "*", "*">>, res.missingHigh[i])]
    \o [i \in DOMAIN res.missingMid |-> gapRow(<<"u4E2D">>, res.missingMid[i])]
    \o [i \in DOMAIN res.missingLow |-> gapRow(<<"u4F4E">>, res.missingLow[i])]
    \o (IF Len(res.missingHigh) = 0 /\ Len(res.missingMid) = 0 /\ Len(res.missingLow) = 0
        THEN <<<<"|", " ", "-", " ", "|", " ", "u306A", "u3057", " ", "|", " ", "u4E3B", "u8981", "S", "c", "h", "e", "m", "a", "u306F", "u5B9F", "u88C5", "u6E08", "u307F", "u3067", "u3059", " ", "|">>>>
        ELSE <<>>)
    \o <<<<>>, <<"-", "-", "-">>, <<>>, <<"#", "#", " ", "u512A", "u5148", "u5EA6", "u300C", "u9AD8", "u300D", "u306E", "J", "S", "O", "N", "-", "L", "D", "uFF08", "u5B9F", "u88C5", "u7528", "uFF09">>, <<>>>>
    \o Flatten([i \in DOMAIN res.generatedJsonLd |-> snippetLines(res.generatedJsonLd[i])])

formatAuditReport(res) == Join(reportLines(res), <<NewLine>>)


---------------------------------------------------------------------------
(* The whole audit of a page: new SchemaExtractor(html, url), audit() on   *)
(* the extractor, formatAuditReport on the result.  The page and the url   *)
(* argument are drawn from bounded sets.                                   *)

Title(s) == Elem("title", <<>>, <<Text(s)>>)

\* No title element, a title with a "|" in it, and one that is empty
\* before its "|".
AuditTitles ==
  {<<>>, <<Title(<<"u3055", "u304F", "u3089", "u846C", "u796D", " ", "|", " ", "u6771", "u4EAC", "u306E", "u846C", "u5100">>)>>, <<Title(<<" ", "|", " ", "u4F1A", "u793E", "u6848", "u5185">>)>>}

BusinessExampleText ==
  <<"T", "E", "L", " ", "0", "3", "-", "1", "2", "3", "4", "-", "5", "6", "7", "8", " ", "u3012", " ", "1", "2", "3", "-", "4", "5", "6", "7", " ", "u6771", "u4EAC", "u90FD", "u6E2F", "u533A", "u829D", "1", "u4E01", "u76EE", "2", "u756A", " ", "u55B6", "u696D", " ", "9", ":", "0", "0", "u301C", "1", "8", ":", "0", "0">>

\* Body texts: empty, FAQ content marked by every indicator, FAQ content
\* marked by "Q." alone, contact details, review words with opening hours.
AuditTexts ==
  {<<>>, FaqExampleText, <<"Q", ".", " ", "u6599", "u91D1", "u306F", "uFF1F">>, BusinessExampleText,
   <<"u53E3", "u30B3", "u30DF", " ", "F", "A", "Q", " ", "1", "0", ":", "0", "0", "-", "1", "9", ":", "0", "0">>}

\* A complete and an incomplete local-business node, an @type array of
\* family names, a breadcrumb list, an FAQ page, a node whose @type holds
\* a "|".
CompleteBusiness ==
  JObj(<<Member(<<"@", "t", "y", "p", "e">>, JStr(<<"F", "u", "n", "e", "r", "a", "l", "H", "o", "m", "e">>))>>
         \o PlainProps(Range(LOCAL_BUSINESS_REQUIRED \o LOCAL_BUSINESS_RECOMMENDED)))

AuditScripts ==
  {Script("malformed", Undefined, <<"U", "n", "e", "x", "p", "e", "c", "t", "e", "d", " ", "t", "o", "k", "e", "n">>, 250),
   Script("json", CompleteBusiness, <<>>, 600),
   Script("json", Node(JStr(<<"L", "o", "c", "a", "l", "B", "u", "s", "i", "n", "e", "s", "s">>), NameProp), <<>>, 600),
   Script("json", Node(JArr(<<JStr(<<"L", "o", "c", "a", "l", "B", "u", "s", "i", "n", "e", "s", "s">>), JStr(<<"O", "r", "g", "a", "n", "i", "z", "a", "t", "i", "o", "n">>)>>),
                       NameProp), <<>>, 600),
   Script("json",
          JObj(<<Member(<<"@", "g", "r", "a", "p", "h">>,
                        JArr(<<Node(JStr(BreadcrumbList),
                                    <<Member(<<"i", "t", "e", "m", "L", "i", "s", "t", "E", "l", "e", "m", "e", "n", "t">>, ListOf(2))>>),
                               Node(JStr(FAQPage),
                                    <<Member(<<"m", "a", "i", "n", "E", "n", "t", "i", "t", "y">>, ListOf(3))>>)>>))>>),
          <<>>, 600),
   Script("json", Node(JStr(<<"L", "o", "c", "a", "l", "|", "B", "u", "s", "i", "n", "e", "s", "s">>), NameProp), <<>>, 600)}

\* <div itemscope itemtype="https://schema.org/LocalBusiness">
\*   <span itemprop="name">さくら葬祭</span>
\*   <meta itemprop="telephone" content="03-1234-5678"></div>
MicrodataExample ==
  Elem("div", <<Member("itemscope", <<>>),
                Member("itemtype", <<"h", "t", "t", "p", "s", ":", "/", "/", "s", "c", "h", "e", "m", "a", ".", "o", "r", "g", "/", "L", "o", "c", "a", "l", "B", "u", "s", "i", "n", "e", "s", "s">>)>>,
       <<Elem("span", <<Member("itemprop", <<"n", "a", "m", "e">>)>>, <<Text(<<"u3055", "u304F", "u3089", "u846C", "u796D">>)>>),
         Elem("meta", <<Member("itemprop", <<"t", "e", "l", "e", "p", "h", "o", "n", "e">>),
                        Member("content", <<"0", "3", "-", "1", "2", "3", "4", "-", "5", "6", "7", "8">>)>>, <<>>)>>)

\* <div typeof="Organization"><span property="schema:name">さくら葬祭</span></div>
RdfaExample ==
  Elem("div", <<Member("typeof", <<"O", "r", "g", "a", "n", "i", "z", "a", "t", "i", "o", "n">>)>>,
       <<Elem("span", <<Member("property", <<"s", "c", "h", "e", "m", "a", ":", "n", "a", "m", "e">>)>>,
              <<Text(<<"u3055", "u304F", "u3089", "u846C", "u796D">>)>>)>>)

\* <div itemscope itemtype="https://schema.org/LocalBusiness">
\*   <span itemprop="name">さくら葬祭</span>
\*   <div itemprop="address" itemscope itemtype="https://schema.org/PostalAddress">
\*     <span itemprop="name">本店</span>
\*     <span itemprop="streetAddress">芝1丁目</span></div></div>
NestedMicrodata ==
  Elem("div", <<Member("itemscope", <<>>),
                Member("itemtype", <<"h", "t", "t", "p", "s", ":", "/", "/", "s", "c", "h", "e", "m", "a", ".", "o", "r", "g", "/", "L", "o", "c", "a", "l", "B", "u", "s", "i", "n", "e", "s", "s">>)>>,
       <<Elem("span", <<Member("itemprop", <<"n", "a", "m", "e">>)>>, <<Text(<<"u3055", "u304F", "u3089", "u846C", "u796D">>)>>),
         Elem("div", <<Member("itemprop", <<"a", "d", "d", "r", "e", "s", "s">>), Member("itemscope", <<>>),
                       Member("itemtype", <<"h", "t", "t", "p", "s", ":", "/", "/", "s", "c", "h", "e", "m", "a", ".", "o", "r", "g", "/", "P", "o", "s", "t", "a", "l", "A", "d", "d", "r", "e", "s", "s">>)>>,
              <<Elem("span", <<Member("itemprop", <<"n", "a", "m", "e">>)>>, <<Text(<<"u672C", "u5E97">>)>>),
                Elem("span", <<Member("itemprop", <<"s", "t", "r", "e", "e", "t", "A", "d", "d", "r", "e", "s", "s">>)>>,
                     <<Text(<<"u829D", "1", "u4E01", "u76EE">>)>>)>>)>>)

\* <div typeof="schema:LocalBusiness">
\*   <meta property="schema:name" content="さくら葬祭">
\*   <span property="schema:description" content=""> xxx...(120 times) </span></div>
RdfaPrefixed ==
  Elem("div", <<Member("typeof", <<"s", "c", "h", "e", "m", "a", ":", "L", "o", "c", "a", "l", "B", "u", "s", "i", "n", "e", "s", "s">>)>>,
       <<Elem("meta", <<Member("property", <<"s", "c", "h", "e", "m", "a", ":", "n", "a", "m", "e">>),
                        Member("content", <<"u3055", "u304F", "u3089", "u846C", "u796D">>)>>, <<>>),
         Elem("span", <<Member("property", <<"s", "c", "h", "e", "m", "a", ":", "d", "e", "s", "c", "r", "i", "p", "t", "i", "o", "n">>),
                        Member("content", <<>>)>>,
              <<Text(<<" ">> \o [i \in 1..120 |-> "x"] \o <<" ">>)>>)>>)

\* <div typeof=""><span property="og:title:alt">葬儀</span>
\*   <span property="name:">葬儀</span></div>
RdfaUntyped ==
  Elem("div", <<Member("typeof", <<>>)>>,
       <<Elem("span", <<Member("property", <<"o", "g", ":", "t", "i", "t", "l", "e", ":", "a", "l", "t">>)>>, <<Text(<<"u846C", "u5100">>)>>),
         Elem("span", <<Member("property", <<"n", "a", "m", "e", ":">>)>>, <<Text(<<"u846C", "u5100">>)>>)>>)

\* The structured data of a page: none, one JSON-LD script, one microdata
\* element (plain or with a nested scope), one RDFa element, or a script
\* with an element.
AuditStructured ==
  {<<>>, <<MicrodataExample>>, <<NestedMicrodata>>, <<RdfaExample>>, <<RdfaPrefixed>>,
   <<RdfaUntyped>>}
    \cup {<<JsonLdScript(el)>> : el \in AuditScripts}
    \cup {<<JsonLdScript(el), MicrodataExample>> : el \in AuditScripts}

AuditPages ==
  {title \o data \o <<Text(text)>> :
     title \in AuditTitles, data \in AuditStructured, text \in AuditTexts}

\* The url argument: left out, empty, without a scheme, and parsable with
\* and without a final slash.
AuditUrls ==
  {Undefined, JStr(<<>>), JStr(<<"e", "x", "a", "m", "p", "l", "e", ".", "c", "o", "m", "/", "a", "b", "o", "u", "t">>),
   JStr(<<"h", "t", "t", "p", "s", ":", "/", "/", "E", "x", "a", "m", "p", "l", "e", ".", "c", "o", "m">>), JStr(<<"h", "t", "t", "p", "s", ":", "/", "/", "e", "x", "a", "m", "p", "l", "e", ".", "c", "o", "m", "/", "a", "b", "o", "u", "t", "/">>)}


InitAudit ==
  /\ IdleAgents
  /\ pc = "new"
  /\ html \in AuditPages
  /\ urlArg \in AuditUrls
  /\ url = <<>>
  /\ domain = <<>>
  /\ result = <<>>
  /\ report = <<>>
  /\ audits = 0
  /\ formats = 0
  /\ thrown = FALSE
  /\ IdleEval
  /\ IdleJsonLd
  /\ IdleMissing

\* const extractor = new SchemaExtractor(html, url)
Construct ==
  /\ pc = "new"
  /\ \E ex \in {SchemaExtractor(html, urlArg)} :
       /\ thrown' = ex.threw
       /\ url' = ex.url
       /\ domain' = ex.domain
       /\ pc' = IF ex.threw THEN "failed" ELSE "constructed"
  /\ UNCHANGED <<taskVars, fetchVars, pipelineVars, fetchAllVars, log,
                 html, urlArg, result, report, audits, formats, evalVars, jsonLdVars,
                 missingVars>>

\* The extractor the auditor holds.
Extractor == [dom |-> html, url |-> url, domain |-> domain]

\* audit() appending its items to those of the result of the call before.
auditAgain_KeepsItems(ex, previous) ==
  IF previous = <<>> \/ audit(ex).threw THEN audit(ex)
  ELSE [audit(ex) EXCEPT !.value.foundSchemas = previous.foundSchemas \o @]

\* auditor.audit() on a state where earlier calls left the result previous:
\* every call builds its result anew.
auditAgain(ex, previous) == audit(ex)

\* auditor.audit(), a first time or again on the same extractor.
Audit ==
  /\ pc \in {"constructed", "audited"}
  /\ audits < MaxAudits
  /\ \E c \in {auditAgain(Extractor, result)} :
       /\ thrown' = c.threw
       /\ result' = c.value
       /\ pc' = IF c.threw THEN "failed" ELSE "audited"
  /\ audits' = audits + 1
  /\ UNCHANGED <<taskVars, fetchVars, pipelineVars, fetchAllVars, log,
                 html, urlArg, url, domain, report, formats, evalVars, jsonLdVars,
                 missingVars>>

\* formatAuditReport emptying the snippet list it has written out.
formatCall_ConsumesSnippets(res) ==
  [result |-> [res EXCEPT !.generatedJsonLd = <<>>], text |-> formatAuditReport(res)]

\* What a formatAuditReport(res) call leaves in res, and the text it returns.
formatCall(res) == [result |-> res, text |-> formatAuditReport(res)]

\* formatAuditReport(auditResult), a first time or again on the same result.
FormatAuditReport ==
  /\ pc \in {"audited", "formatted"}
  /\ formats < MaxFormats
  /\ \E c \in {formatCall(result)} :
       /\ result' = c.result
       /\ report' = c.text
  /\ formats' = formats + 1
  /\ pc' = "formatted"
  /\ UNCHANGED <<taskVars, fetchVars, pipelineVars, fetchAllVars, log,
                 html, urlArg, url, domain, audits, thrown, evalVars, jsonLdVars,
                 missingVars>>

NextAudit == Construct \/ Audit \/ FormatAuditReport

SpecAudit == InitAudit /\ [][NextAudit]_vars

---------------------------------------------------------------------------
(* Claims about the audit of a page, checked under SpecAudit.              *)

\* audit() has returned its result.
Audited == pc \in {"audited", "formatted"}

\* The page has no JSON-LD script, no [itemscope] and no [typeof] element.
NoStructuredData(dom) ==
  /\ JsonLdScripts(dom) = <<>>
  /\ \A i \in DOMAIN Descendants(dom) :
       ~HasAttr(Descendants(dom)[i], "itemscope") /\ ~HasAttr(Descendants(dom)[i], "typeof")

\* The type fields of a list of gaps or of snippets, in order.
TypesIn(list) == [i \in DOMAIN list |-> list[i].type]

LocalBusinessGap == <<"L", "o", "c", "a", "l", "B", "u", "s", "i", "n", "e", "s", "s", " ", "/", " ", "F", "u", "n", "e", "r", "a", "l", "H", "o", "m", "e">>
LocalBusinessSnippet == <<"F", "u", "n", "e", "r", "a", "l", "H", "o", "m", "e", "uFF08", "L", "o", "c", "a", "l", "B", "u", "s", "i", "n", "e", "s", "s", "u6D3E", "u751F", "uFF09">>

HasFaqIndicator(dom) ==
  SomeIncluded(<<<<"u3088", "u304F", "u3042", "u308B", "u8CEA", "u554F">>, <<"F", "A", "Q">>, <<"Q", "&", "A">>, <<"Q", ".">>, <<"A", ".">>>>, TextOf(dom))

\* C12: for a page without structured data audit completes without
\* raising and returns an empty foundSchemas list; missingHigh reports
\* local-business and BreadcrumbList as absent, and FAQPage as absent
\* exactly when the text of the page holds an FAQ indicator.
C12_NoStructuredData ==
  (pc \in {"audited", "formatted", "failed"} /\ NoStructuredData(html))
    => /\ ~thrown
       /\ Audited
       /\ result.foundSchemas = <<>>
       /\ TypesIn(result.missingHigh)
            = <<LocalBusinessGap, BreadcrumbList>>
                \o (IF HasFaqIndicator(html) THEN <<FAQPage>> ELSE <<>>)

\* A page without structured data and without FAQ indicator has been
\* audited: two high-priority gaps.
C12_Witness ==
  /\ Audited
  /\ NoStructuredData(html)
  /\ ~HasFaqIndicator(html)
  /\ result.foundSchemas = <<>>
  /\ Len(result.missingHigh) = 2

\* C12 as stated: every page without structured data gets all three
\* high-priority gaps.
C12_EveryHighTypeAbsent ==
  (Audited /\ NoStructuredData(html))
    => TypesIn(result.missingHigh) = <<LocalBusinessGap, BreadcrumbList, FAQPage>>

\* The items of the local-business family among the items found.
FamilyItems(found) ==
  SelectSeq(found, LAMBDA s : s.schemaType \in Range(FUNERAL_HOME_TYPES))

HasLocalBusinessSnippet(res) ==
  \E i \in DOMAIN res.generatedJsonLd : res.generatedJsonLd[i].type = LocalBusinessSnippet

\* C13: the FuneralHome snippet is generated exactly when no item of the
\* local-business family was found or some item of the family found is
\* labelled warning.
C13_LocalBusinessSnippet ==
  Audited
    => (HasLocalBusinessSnippet(result)
          <=> \/ FamilyItems(result.foundSchemas) = <<>>
              \/ \E i \in DOMAIN FamilyItems(result.foundSchemas) :
                   FamilyItems(result.foundSchemas)[i].evalLabel = EVAL_WARN)

\* A page whose only local-business item is labelled warning has been
\* audited, and the snippet is there.
C13_Witness ==
  /\ Audited
  /\ FamilyItems(result.foundSchemas) # <<>>
  /\ \A i \in DOMAIN FamilyItems(result.foundSchemas) :
       FamilyItems(result.foundSchemas)[i].evalLabel = EVAL_WARN
  /\ HasLocalBusinessSnippet(result)

HasFaqGap(res) == \E i \in DOMAIN res.missingHigh : res.missingHigh[i].type = FAQPage

HasFaqSnippet(res) ==
  \E i \in DOMAIN res.generatedJsonLd : res.generatedJsonLd[i].type = FAQPage

\* C14, as stated: whenever the detector puts an FAQPage gap in
\* missingHigh, the synthesizer generates the FAQPage snippet.  The code
\* violates it: the detector (line 408) also takes "Q." and "A." for FAQ
\* indicators, the synthesizer (line 559) does not.
C14_DetectorSynthesizerAgree ==
  Audited => (HasFaqGap(result) => HasFaqSnippet(result))

\* The local-business snippets of a result.
LocalBusinessSnippets(res) ==
  SelectSeq(res.generatedJsonLd, LAMBDA g : g.type = LocalBusinessSnippet)

\* pageInfo[key] of a result.
InfoOf(res, key) == MemberGet(res.pageInfo, key).s

\* v is the string extracted when there is one, the placeholder otherwise,
\* and in no case the empty string.
Filled(v, extracted, placeholder) ==
  /\ v = JStr(IF extracted # <<>> THEN extracted ELSE placeholder)
  /\ v.s # <<>>

\* The four fields of the local-business schema lb are filled from info.
FieldsFilled(lb, res) ==
  /\ Filled(Get(lb, <<"n", "a", "m", "e">>), Trim(BeforeFirst(InfoOf(res, <<"t", "i", "t", "l", "e">>), "|")),
            <<"uFF08", "u30B5", "u30A4", "u30C8", "u30BF", "u30A4", "u30C8", "u30EB", "u304B", "u3089", "u53D6", "u5F97", "uFF09">>)
  /\ Filled(Get(lb, <<"t", "e", "l", "e", "p", "h", "o", "n", "e">>), InfoOf(res, <<"t", "e", "l", "e", "p", "h", "o", "n", "e">>), <<"uFF08", "u96FB", "u8A71", "u756A", "u53F7", "u3092", "u5165", "u529B", "uFF09">>)
  /\ Filled(Get(Get(lb, <<"a", "d", "d", "r", "e", "s", "s">>), <<"s", "t", "r", "e", "e", "t", "A", "d", "d", "r", "e", "s", "s">>), InfoOf(res, <<"a", "d", "d", "r", "e", "s", "s">>),
            <<"uFF08", "u4F4F", "u6240", "u3092", "u5165", "u529B", "uFF09">>)
  /\ Filled(Get(Get(lb, <<"a", "d", "d", "r", "e", "s", "s">>), <<"p", "o", "s", "t", "a", "l", "C", "o", "d", "e">>), InfoOf(res, <<"p", "o", "s", "t", "a", "l", "_", "c", "o", "d", "e">>),
            <<"uFF08", "u90F5", "u4FBF", "u756A", "u53F7", "u3092", "u5165", "u529B", "uFF09">>)

\* C15: in every generated local-business snippet name, telephone,
\* address.streetAddress and address.postalCode are present and hold the
\* non-empty value extracted from the page or else the placeholder string,
\* never null, undefined or the empty string; without an extractable
\* address streetAddress is the placeholder.
C15_Placeholders ==
  Audited
    => \A i \in DOMAIN LocalBusinessSnippets(result) :
         FieldsFilled(LocalBusinessSnippets(result)[i].schema, result)

\* A local-business snippet was generated for a page without extractable
\* address and telephone, and one of its fields holds a placeholder.
C15_Witness ==
  /\ Audited
  /\ LocalBusinessSnippets(result) # <<>>
  /\ InfoOf(result, <<"a", "d", "d", "r", "e", "s", "s">>) = <<>>
  /\ InfoOf(result, <<"t", "e", "l", "e", "p", "h", "o", "n", "e">>) = <<>>
  /\ Get(Get(Head(LocalBusinessSnippets(result)).schema, <<"a", "d", "d", "r", "e", "s", "s">>), <<"s", "t", "r", "e", "e", "t", "A", "d", "d", "r", "e", "s", "s">>)
       = JStr(<<"uFF08", "u4F4F", "u6240", "u3092", "u5165", "u529B", "uFF09">>)

\* v is the all-week 00:00-23:59 default.
IsAllWeekDefault(v) ==
  /\ v.j = "arr"
  /\ Len(v.a) = 1
  /\ Get(v.a[1], <<"d", "a", "y", "O", "f", "W", "e", "e", "k">>) = JArr([i \in DOMAIN AllWeek |-> JStr(AllWeek[i])])
  /\ Get(v.a[1], <<"o", "p", "e", "n", "s">>) = JStr(<<"0", "0", ":", "0", "0">>)
  /\ Get(v.a[1], <<"c", "l", "o", "s", "e", "s">>) = JStr(<<"2", "3", ":", "5", "9">>)

\* C16, as stated: when opening hours were extracted from the page, the
\* local-business snippet's openingHoursSpecification is not the all-week
\* 00:00-23:59 default.  The code violates it: lines 498-513 never read
\* info["opening_hours"].
C16_ExtractedHoursUsed ==
  (Audited /\ InfoOf(result, <<"o", "p", "e", "n", "i", "n", "g", "_", "h", "o", "u", "r", "s">>) # <<>>)
    => \A i \in DOMAIN LocalBusinessSnippets(result) :
         ~IsAllWeekDefault(Get(LocalBusinessSnippets(result)[i].schema,
                               <<"o", "p", "e", "n", "i", "n", "g", "H", "o", "u", "r", "s", "S", "p", "e", "c", "i", "f", "i", "c", "a", "t", "i", "o", "n">>))

\* C17: the pageInfo of the audit result has exactly the seven keys title,
\* telephone, postal_code, address, opening_hours, url, domain, and every
\* value is a string, the empty string when nothing matched.
C17_PageInfoKeys ==
  Audited
    => /\ [i \in DOMAIN result.pageInfo |-> result.pageInfo[i].k]
            = <<<<"t", "i", "t", "l", "e">>, <<"t", "e", "l", "e", "p", "h", "o", "n", "e">>, <<"p", "o", "s", "t", "a", "l", "_", "c", "o", "d", "e">>, <<"a", "d", "d", "r", "e", "s", "s">>,
                <<"o", "p", "e", "n", "i", "n", "g", "_", "h", "o", "u", "r", "s">>, <<"u", "r", "l">>, <<"d", "o", "m", "a", "i", "n">>>>
       /\ \A i \in DOMAIN result.pageInfo : result.pageInfo[i].v.j = "str"

\* A page without title, telephone and postal code, audited for a url
\* argument left out: the keys are there with empty values.
C17_Witness ==
  /\ Audited
  /\ urlArg = Undefined
  /\ Len(result.pageInfo) = 7
  /\ InfoOf(result, <<"t", "i", "t", "l", "e">>) = <<>>
  /\ InfoOf(result, <<"t", "e", "l", "e", "p", "h", "o", "n", "e">>) = <<>>
  /\ InfoOf(result, <<"u", "r", "l">>) = <<>>

\* The url arguments that are missing, empty or no URL.
BadUrls == {Undefined, JStr(<<>>), JStr(<<"e", "x", "a", "m", "p", "l", "e", ".", "c", "o", "m", "/", "a", "b", "o", "u", "t">>)}

\* C18: constructing the extractor with a missing, empty or unparsable url
\* never raises; domain is the empty string, url is the argument ("" when
\* it is missing), and the audit proceeds with these values.
C18_BadUrl ==
  (pc # "new" /\ urlArg \in BadUrls)
    => /\ ~thrown
       /\ pc # "failed"
       /\ domain = <<>>
       /\ url = (IF urlArg = Undefined THEN <<>> ELSE urlArg.s)
       /\ Audited => /\ result.url = url
                     /\ InfoOf(result, <<"u", "r", "l">>) = url
                     /\ InfoOf(result, <<"d", "o", "m", "a", "i", "n">>) = <<>>

\* A page has been audited for the url "example.com/about", which new URL
\* rejects.
C18_Witness ==
  /\ Audited
  /\ urlArg = JStr(<<"e", "x", "a", "m", "p", "l", "e", ".", "c", "o", "m", "/", "a", "b", "o", "u", "t">>)
  /\ domain = <<>>
  /\ result.url = <<"e", "x", "a", "m", "p", "l", "e", ".", "c", "o", "m", "/", "a", "b", "o", "u", "t">>

RowStarts(s) == {p \in 1..Len(s) : s[p] = "|" /\ (p = 1 \/ s[p - 1] = NewLine)}

\* The position after the line that starts at p.
LineEnd(s, p) ==
  CHOOSE q \in p..(Len(s) + 1) :
    /\ q = Len(s) + 1 \/ s[q] = NewLine
    /\ \A k \in p..(q - 1) : s[k] # NewLine

\* The number of cells of the row that starts at p.
Cells(s, p) == Cardinality({k \in p..(LineEnd(s, p) - 1) : s[k] = "|"}) - 1

\* The start of the header row of the missing-schema table.
GapTableStart(s) ==
  CHOOSE p \in RowStarts(s) :
    /\ SubSeq(s, p, LineEnd(s, p) - 1) = <<"|", " ", "u512A", "u5148", "u5EA6", " ", "|", " ", "S", "c", "h", "e", "m", "a", "u7A2E", "u5225", " ", "|", " ", "u7406", "u7531", " ", "|">>
    /\ \A q \in RowStarts(s) :
         SubSeq(s, q, LineEnd(s, q) - 1) = <<"|", " ", "u512A", "u5148", "u5EA6", " ", "|", " ", "S", "c", "h", "e", "m", "a", "u7A2E", "u5225", " ", "|", " ", "u7406", "u7531", " ", "|">> => p <= q

\* C21, as stated: in the rendered report every row of the found-schema
\* table has exactly 5 cells and every row of the missing-schema table
\* exactly 3.  The code violates it: lines 618-621 write schemaType,
\* property names and notes into the row as they are, "|" included.
C21_ConsistentColumns ==
  pc = "formatted"
    => \A p \in RowStarts(report) :
         Cells(report, p) = (IF p < GapTableStart(report) THEN 5 ELSE 3)

\* The gap type a snippet type answers.
GapFor(type) == IF type = LocalBusinessSnippet THEN LocalBusinessGap ELSE type

HasGapFor(res, type) ==
  \E i \in DOMAIN res.missingHigh : res.missingHigh[i].type = GapFor(type)

HasWeakFamilyItem(res) ==
  \E i \in DOMAIN res.foundSchemas :
    /\ res.foundSchemas[i].schemaType \in Range(FUNERAL_HOME_TYPES)
    /\ res.foundSchemas[i].evalLabel = EVAL_WARN

\* C23: every generated snippet has priority high and its own @context,
\* no two snippets have the same type, and a snippet is generated only for
\* a type the audit reports as a gap in missingHigh or, for the
\* local-business snippet, when a local-business item found is labelled
\* warning.
C23_SnippetsForGaps ==
  Audited
    => \A i \in DOMAIN result.generatedJsonLd :
         /\ result.generatedJsonLd[i].priority = <<"u9AD8">>
         /\ Get(result.generatedJsonLd[i].schema, <<"@", "c", "o", "n", "t", "e", "x", "t">>)
              = JStr(<<"h", "t", "t", "p", "s", ":", "/", "/", "s", "c", "h", "e", "m", "a", ".", "o", "r", "g">>)
         /\ \/ HasGapFor(result, result.generatedJsonLd[i].type)
            \/ /\ result.generatedJsonLd[i].type = LocalBusinessSnippet
               /\ HasWeakFamilyItem(result)
         /\ \A j \in DOMAIN result.generatedJsonLd :
              result.generatedJsonLd[j].type = result.generatedJsonLd[i].type => j = i

\* A local-business snippet was generated for a page whose local-business
\* item is labelled warning: missingHigh has no local-business gap.
C23_Witness ==
  /\ Audited
  /\ HasLocalBusinessSnippet(result)
  /\ HasWeakFamilyItem(result)
  /\ ~HasGapFor(result, LocalBusinessSnippet)

\* C23 as stated: every snippet is generated for a type reported as a gap
\* in missingHigh.
C23_EverySnippetHasGap ==
  Audited
    => \A i \in DOMAIN result.generatedJsonLd :
         HasGapFor(result, result.generatedJsonLd[i].type)

\* The items of a result that come from the given source.
ItemsFrom(res, source) == SelectSeq(res.foundSchemas, LAMBDA s : s.source = source)

\* The elements of the page that carry the attribute, in document order.
ElementsWith(dom, attribute) == SelectSeq(Descendants(dom), LAMBDA e : HasAttr(e, attribute))

\* The name a property element gives: its itemprop value for microdata,
\* the part after the last colon of its property value for RDFa.
NameGiven(propEl, attribute) ==
  IF attribute = "itemprop" THEN MemberGet(propEl.attrs, "itemprop")
  ELSE AfterLast(MemberGet(propEl.attrs, "property"), ":")

\* The descendants of el that give a property a name.
Named(el, attribute) ==
  SelectSeq(ElementsWith(el.kids, attribute), LAMBDA e : NameGiven(e, attribute) # <<>>)

\* ps has exactly the names the elements propEls give, each with the value
\* that value(e) gives for the last element e of that name.
LastValues(ps, propEls, attribute, value(_)) ==
  /\ {ps[i].k : i \in DOMAIN ps} = {NameGiven(propEls[n], attribute) : n \in DOMAIN propEls}
  /\ \A n \in DOMAIN propEls :
       (\A m \in (n + 1)..Len(propEls) :
          NameGiven(propEls[m], attribute) # NameGiven(propEls[n], attribute))
         => MemberGet(ps, NameGiven(propEls[n], attribute)) = value(propEls[n])

\* C24: microdata extraction emits one item per element carrying
\* itemscope, nested ones included, in document order; the properties of
\* an item are the itemprops of all descendants of its element, those of
\* nested scopes included, and of two descendants with one name the later
\* gives the value.
C24_NestedMicrodata ==
  Audited
    => /\ Len(ItemsFrom(result, "microdata")) = Len(ElementsWith(html, "itemscope"))
       /\ \A k \in DOMAIN ElementsWith(html, "itemscope") :
            /\ ItemsFrom(result, "microdata")[k].schemaType
                 = microdataType(Or(Attr(ElementsWith(html, "itemscope")[k], "itemtype"),
                                    JStr(<<>>)).s)
            /\ LastValues(ItemsFrom(result, "microdata")[k].properties,
                          Named(ElementsWith(html, "itemscope")[k], "itemprop"),
                          "itemprop", microdataValue)

\* The page with the nested scope has been audited: two items, the outer
\* one with the nested name ("本店") and the nested streetAddress.
C24_Witness ==
  /\ Audited
  /\ Len(ItemsFrom(result, "microdata")) = 2
  /\ MemberGet(ItemsFrom(result, "microdata")[1].properties, <<"n", "a", "m", "e">>) = JStr(<<"u672C", "u5E97">>)
  /\ MemberGet(ItemsFrom(result, "microdata")[1].properties, <<"s", "t", "r", "e", "e", "t", "A", "d", "d", "r", "e", "s", "s">>)
       = JStr(<<"u829D", "1", "u4E01", "u76EE">>)
  /\ ItemsFrom(result, "microdata")[2].schemaType = <<"P", "o", "s", "t", "a", "l", "A", "d", "d", "r", "e", "s", "s">>

\* The value of a [property] element as the claim gives it: the content
\* attribute when non-empty, otherwise the trimmed text capped at 100
\* characters.
ContentOrText(propEl) ==
  IF HasAttr(propEl, "content") /\ MemberGet(propEl.attrs, "content") # <<>>
  THEN JStr(MemberGet(propEl.attrs, "content"))
  ELSE JStr(SubSeq(Trim(TextOf(propEl.kids)), 1, Min(Len(Trim(TextOf(propEl.kids))), 100)))

\* C25: for every element carrying typeof RDFa extraction emits one item,
\* in document order, whose schemaType is the attribute's value as it is
\* ("不明" when empty), whose property names are the parts after the last
\* colon of the descendants' property attributes, whose values are the
\* content attribute when non-empty and otherwise the trimmed text capped
\* at 100 characters, whose source is rdfa and whose raw snippet is empty.
C25_Rdfa ==
  Audited
    => /\ Len(ItemsFrom(result, "rdfa")) = Len(ElementsWith(html, "typeof"))
       /\ \A k \in DOMAIN ElementsWith(html, "typeof") :
            /\ ItemsFrom(result, "rdfa")[k].schemaType
                 = (IF MemberGet(ElementsWith(html, "typeof")[k].attrs, "typeof") = <<>>
                    THEN Unknown
                    ELSE MemberGet(ElementsWith(html, "typeof")[k].attrs, "typeof"))
            /\ ItemsFrom(result, "rdfa")[k].raw = 0
            /\ LastValues(ItemsFrom(result, "rdfa")[k].properties,
                          Named(ElementsWith(html, "typeof")[k], "property"),
                          "property", ContentOrText)

\* The page with typeof="schema:LocalBusiness" has been audited: the type
\* keeps its prefix, the names lose theirs, the long text is cut at 100.
C25_Witness ==
  /\ Audited
  /\ Len(ItemsFrom(result, "rdfa")) = 1
  /\ ItemsFrom(result, "rdfa")[1].schemaType = <<"s", "c", "h", "e", "m", "a", ":", "L", "o", "c", "a", "l", "B", "u", "s", "i", "n", "e", "s", "s">>
  /\ MemberGet(ItemsFrom(result, "rdfa")[1].properties, <<"n", "a", "m", "e">>) = JStr(<<"u3055", "u304F", "u3089", "u846C", "u796D">>)
  /\ Len(MemberGet(ItemsFrom(result, "rdfa")[1].properties, <<"d", "e", "s", "c", "r", "i", "p", "t", "i", "o", "n">>).s) = 100

\* C27, as stated: when some extracted item is evaluated by the
\* local-business rule, missingHigh has no local-business gap.  The code
\* violates it: the rule (lines 172-175) takes every schemaType containing
\* "Business", the detector (lines 388-390) only the exact family names.
C27_EvaluatorDetectorAgree ==
  Audited
    => ((\E i \in DOMAIN result.foundSchemas :
           IsLocalBusiness(result.foundSchemas[i].schemaType))
          => ~HasGapFor(result, LocalBusinessSnippet))

---------------------------------------------------------------------------
(* runTask02SchemaAudit: the page is fetched, then the core is run.        *)

\* type of PageData.status
PageStatuses == {"pending", "success", "error", "timeout", "blocked"}

\* The messages a failed fetch leaves in pageData.errorMessage.
FailureMessages == {<<>>, <<"H", "T", "T", "P", " ", "4", "0", "4", " ", "-", " ", "u30DA", "u30FC", "u30B8", "u975E", "u5B58", "u5728">>, <<"H", "T", "T", "P", " ", "4", "0", "3", " ", "-", " ", "u30A2", "u30AF", "u30BB", "u30B9", "u5236", "u9650">>}

\* The pages a fetch may bring back.
TaskPages ==
  {title \o data \o <<Text(text)>> :
     title \in AuditTitles, data \in {<<>>, <<MicrodataExample>>},
     text \in AuditTexts}

TaskUrls == AuditUrls \ {Undefined}

\* fetcher.fetchRaw(url): the { html, pageData } objects the call may resolve
\* with. A fetch that ended with status success comes with the HTML string;
\* one that ended otherwise comes with or without one (html |-> <<>> and
\* given |-> FALSE is the absent string).
fetchRaw(u) ==
  {[given |-> TRUE, html |-> h,
    pageData |-> [url |-> u, status |-> "success", errorMessage |-> <<>>]] :
     h \in TaskPages}
  \cup
  {[given |-> g, html |-> <<>>,
    pageData |-> [url |-> u, status |-> st, errorMessage |-> m]] :
     g \in BOOLEAN, st \in PageStatuses \ {"success"}, m \in FailureMessages}

\* The test letting every fetch through that did not end with status error.
fetchFailed_OnlyError(pd) == pd.status = "error"

\* if (pageData.status !== "success")
fetchFailed(pd) == pd.status # "success"

\* `ページの取得に失敗しました: ${pageData.errorMessage}`
TaskFailure(pd) == <<"u30DA", "u30FC", "u30B8", "u306E", "u53D6", "u5F97", "u306B", "u5931", "u6557", "u3057", "u307E", "u3057", "u305F", ":", " ">> \o pd.errorMessage

InitTask ==
  /\ pc = "task"
  /\ urlArg \in TaskUrls
  /\ html = <<>> /\ url = <<>> /\ domain = <<>>
  /\ result = <<>> /\ report = <<>> /\ audits = 0 /\ formats = 0
  /\ thrown = FALSE
  /\ IdleEval
  /\ IdleJsonLd
  /\ IdleMissing
  /\ IdleAgents

\* const { html, pageData } = await fetcher.fetchRaw(url), and the test of
\* pageData.status that follows it.
FetchRaw ==
  /\ pc = "task"
  /\ \E r \in fetchRaw(urlArg) :
       /\ fetched' = r
       /\ html' = r.html
       /\ thrown' = fetchFailed(r.pageData)
       /\ taskError' = IF fetchFailed(r.pageData) THEN TaskFailure(r.pageData)
                       ELSE <<>>
       /\ pc' = IF fetchFailed(r.pageData) THEN "taskFailed" ELSE "new"
  /\ UNCHANGED <<urlArg, url, domain, result, report, audits, formats, evalVars,
                 jsonLdVars, missingVars, fetchVars, pipelineVars, fetchAllVars,
                 log>>

NextTask == FetchRaw \/ Construct \/ Audit \/ FormatAuditReport

SpecTask == InitTask /\ [][NextTask]_vars

\* The core has been constructed or run.
CoreInvoked ==
  \/ pc \in {"constructed", "audited", "formatted", "failed"}
  \/ url # <<>> \/ domain # <<>> \/ result # <<>> \/ report # <<>>
  \/ audits > 0 \/ formats > 0

\* C22: in the schema-audit task the extractor and the auditor are invoked
\* only after the fetch has finished with status success and has brought an
\* HTML string; when the fetch ends in any other status the task has failed
\* with an error that carries the fetch's error message and the core has
\* neither been constructed nor run.
C22_CoreOnlyAfterSuccess ==
  /\ (pc = "new" \/ CoreInvoked) =>
       (fetched # <<>> /\ fetched.pageData.status = "success" /\ fetched.given)
  /\ (fetched # <<>> /\ fetched.pageData.status # "success") =>
       /\ pc = "taskFailed"
       /\ thrown
       /\ taskError =
            <<"u30DA", "u30FC", "u30B8", "u306E", "u53D6", "u5F97", "u306B", "u5931", "u6557", "u3057", "u307E", "u3057", "u305F", ":", " ">> \o fetched.pageData.errorMessage
       /\ ~CoreInvoked

C22_Witness ==
  /\ pc = "taskFailed"
  /\ fetched.pageData.status = "blocked"
  /\ fetched.pageData.errorMessage = <<"H", "T", "T", "P", " ", "4", "0", "3", " ", "-", " ", "u30A2", "u30AF", "u30BB", "u30B9", "u5236", "u9650">>
  /\ ~fetched.given

---------------------------------------------------------------------------
(* PageFetcher.fetch: one URL, tried until a response settles it.          *)

maxRetries == 3
retryWait == 30000

FetchUrls == {<<"h", "t", "t", "p", "s", ":", "/", "/", "e", "x", "a", "m", "p", "l", "e", ".", "c", "o", "m", "/">>, <<"h", "t", "t", "p", "s", ":", "/", "/", "e", "x", "a", "m", "p", "l", "e", ".", "c", "o", "m", "/", "a", "b", "o", "u", "t">>}

\* The HTTP statuses a response may carry (redirects are followed).
Responses == {200, 401, 403, 404, 500}

NoError == [class |-> "none", name |-> "", text |-> <<>>]
\* controller.abort() fired before the response arrived
AbortError ==
  [class |-> "DOMException", name |-> "AbortError",
   text |-> <<"A", "b", "o", "r", "t", "E", "r", "r", "o", "r", ":", " ", "T", "h", "i", "s", " ", "o", "p", "e", "r", "a", "t", "i", "o", "n", " ", "w", "a", "s", " ", "a", "b", "o", "r", "t", "e", "d">> ]
\* fetch() could not connect
FetchFailed ==
  [class |-> "TypeError", name |-> "TypeError",
   text |-> <<"T", "y", "p", "e", "E", "r", "r", "o", "r", ":", " ", "f", "e", "t", "c", "h", " ", "f", "a", "i", "l", "e", "d">> ]
\* the connection was lost while resp.text() read the body
Terminated ==
  [class |-> "TypeError", name |-> "TypeError",
   text |-> <<"T", "y", "p", "e", "E", "r", "r", "o", "r", ":", " ", "t", "e", "r", "m", "i", "n", "a", "t", "e", "d">> ]

\* What one pass through the try block meets: a response (status) whose body,
\* when it is read, arrives or not (error), or no response at all (status 0).
Outcomes ==
  {[status |-> st, error |-> NoError] : st \in Responses}
  \cup {[status |-> 200, error |-> Terminated]}
  \cup {[status |-> 0, error |-> e] : e \in {AbortError, FetchFailed, Terminated}}

\* createPageData(url), with the fields fetch() reads or writes (httpStatus 0
\* is null; title stands for the fields parseAll() fills).
createPageData(u) ==
  [url |-> u, status |-> "pending", httpStatus |-> 0, title |-> <<>>,
   errorMessage |-> <<>>]

\* parser.parseAll() of the body of a 200 response
parseAll == [title |-> <<"E", "x", "a", "m", "p", "l", "e">> ]

\* The catch block.
caught(p, n, error) ==
  IF error.class = "DOMException" /\ error.name = "AbortError"
  THEN [p EXCEPT !.status = "timeout",
                 !.errorMessage = <<"u30BF", "u30A4", "u30E0", "u30A2", "u30A6", "u30C8", "uFF08", "u8A66", "u884C">> \o DecStr(n) \o <<"/">>
                                  \o DecStr(maxRetries) \o <<"uFF09">> ]
  ELSE IF error.class = "TypeError" /\ Includes(error.text, <<"f", "e", "t", "c", "h">>)
  THEN [p EXCEPT !.status = "error",
                 !.errorMessage = <<"u63A5", "u7D9A", "u30A8", "u30E9", "u30FC", ":", " ">> \o error.text]
  ELSE [p EXCEPT !.status = "error",
                 !.errorMessage = <<"u4E0D", "u660E", "u306A", "u30A8", "u30E9", "u30FC", ":", " ">> \o error.text]

\* The try block once resp has arrived and page.httpStatus is set.
responded(p, n, o) ==
  IF o.status = 200
  THEN IF o.error = NoError
       THEN [page |-> [p EXCEPT !.title = parseAll.title, !.status = "success"],
             returns |-> TRUE]
       ELSE [page |-> caught(p, n, o.error), returns |-> FALSE]
  ELSE IF o.status = 403 \/ o.status = 401
  THEN [page |-> [p EXCEPT !.status = "blocked",
                           !.errorMessage = <<"H", "T", "T", "P", " ">> \o DecStr(o.status)
                                            \o <<" ", "-", " ", "u30A2", "u30AF", "u30BB", "u30B9", "u5236", "u9650">> ],
        returns |-> TRUE]
  ELSE IF o.status = 404
  THEN [page |-> [p EXCEPT !.status = "error",
                           !.errorMessage = <<"H", "T", "T", "P", " ", "4", "0", "4", " ", "-", " ", "u30DA", "u30FC", "u30B8", "u975E", "u5B58", "u5728">> ],
        returns |-> TRUE]
  ELSE [page |-> [p EXCEPT !.errorMessage = <<"H", "T", "T", "P", " ">> \o DecStr(o.status)],
        returns |-> FALSE]

\* One pass through the loop body up to the test before the sleep.
tried(p, n, o) ==
  IF o.status = 0 THEN [page |-> caught(p, n, o.error), returns |-> FALSE]
  ELSE responded([p EXCEPT !.httpStatus = o.status], n, o)

\* A loop that sleeps after every attempt, the last one too.
shouldWait_Always(n) == TRUE

\* if (attempt < this.maxRetries)
shouldWait(n) == n < maxRetries

\* The end of fetch() leaving the status of the last attempt.
exhausted_KeepsStatus(p) == p

\* page.status = "error" after the loop
exhausted(p) == [p EXCEPT !.status = "error"]

InitFetch ==
  /\ pc = "fetch"
  /\ page \in {createPageData(u) : u \in FetchUrls}
  /\ attempt = 1
  /\ log = <<>>
  /\ thrown = FALSE
  /\ IdleEval /\ IdleJsonLd /\ IdleMissing /\ IdleAudit
  /\ IdleTask /\ IdlePipeline /\ IdleFetchAll

\* One attempt: await fetch(url, ...), the branch on resp.status or the catch
\* block, and what follows up to the next await or the return.
Attempt ==
  /\ pc = "fetch"
  /\ attempt <= maxRetries
  /\ \E o \in Outcomes :
       \E t \in {tried(page, attempt, o)} :
         /\ log' = Append(log, [call |-> "fetch", attempt |-> attempt,
                                status |-> o.status, error |-> o.error,
                                read |-> o.status = 200 /\ o.error = NoError])
         /\ IF t.returns
            THEN page' = t.page /\ pc' = "returned" /\ attempt' = attempt
            ELSE IF shouldWait(attempt)
            THEN page' = t.page /\ pc' = "sleep" /\ attempt' = attempt
            ELSE IF attempt + 1 <= maxRetries
            THEN page' = t.page /\ pc' = "fetch" /\ attempt' = attempt + 1
            ELSE page' = exhausted(t.page) /\ pc' = "returned"
                 /\ attempt' = attempt + 1
  /\ UNCHANGED <<thrown, evalVars, jsonLdVars, missingVars, auditVars, taskVars,
                 pipelineVars, fetchAllVars>>

\* await this.sleep(this.retryWait), the attempt++ and the loop test after it
Sleep ==
  /\ pc = "sleep"
  /\ log' = Append(log, [call |-> "sleep", ms |-> retryWait])
  /\ IF attempt + 1 <= maxRetries
     THEN page' = page /\ pc' = "fetch"
     ELSE page' = exhausted(page) /\ pc' = "returned"
  /\ attempt' = attempt + 1
  /\ UNCHANGED <<thrown, evalVars, jsonLdVars, missingVars, auditVars, taskVars,
                 pipelineVars, fetchAllVars>>

NextFetch == Attempt \/ Sleep

SpecFetch == InitFetch /\ [][NextFetch]_vars

---------------------------------------------------------------------------
(* Claims about PageFetcher.fetch, checked under SpecFetch.                *)

\* The attempts made so far, as positions of the log.
Attempts == {k \in DOMAIN log : log[k].call = "fetch"}

\* The log continues after position k with one sleep of retryWait and, once
\* the sleep is over, with the attempt numbered n.
WaitsThenTries(k, n) ==
  \/ k = Len(log) /\ pc = "sleep"
  \/ /\ k < Len(log)
     /\ log[k + 1] = [call |-> "sleep", ms |-> 30000]
     /\ \/ k + 1 = Len(log) /\ pc = "fetch" /\ attempt = n
        \/ /\ k + 2 <= Len(log)
           /\ log[k + 2].call = "fetch"
           /\ log[k + 2].attempt = n

\* The call ended with the attempt at position k of the log.
EndsAt(k) == k = Len(log) /\ pc = "returned"

\* The shape of the log: at most 3 attempts, numbered from 1; an attempt that
\* settles the call (given by Settles) ends it at once, the third attempt ends
\* it without a wait, and any other attempt is followed by one wait of
\* retryWait and the next attempt.
RetryDiscipline(Settles(_)) ==
  /\ Cardinality(Attempts) <= 3
  /\ log # <<>> => Head(log).call = "fetch" /\ Head(log).attempt = 1
  /\ \A k \in Attempts :
       IF Settles(log[k]) \/ log[k].attempt = 3
       THEN EndsAt(k)
       ELSE WaitsThenTries(k, log[k].attempt + 1)

\* How 401, 403 and 404 are recorded in the page returned.
RecordedAsDocumented ==
  (pc = "returned" /\ log # <<>>) =>
    /\ log[Len(log)].status \in {401, 403} =>
         /\ page.status = "blocked"
         /\ page.errorMessage =
              <<"H", "T", "T", "P", " ">> \o DecStr(log[Len(log)].status) \o <<" ", "-", " ", "u30A2", "u30AF", "u30BB", "u30B9", "u5236", "u9650">>
    /\ log[Len(log)].status = 404 =>
         /\ page.status = "error"
         /\ page.errorMessage = <<"H", "T", "T", "P", " ", "4", "0", "4", " ", "-", " ", "u30DA", "u30FC", "u30B8", "u975E", "u5B58", "u5728">>

AnyFinalStatus(e) == e.status \in {200, 401, 403, 404}
FinalStatusRead(e) == e.status \in {401, 403, 404} \/ (e.status = 200 /\ e.read)

\* C26 as stated: fetch tries a URL at most 3 times; after a timeout, a
\* connection error or a status other than 200, 401, 403 and 404 it waits
\* retryWait (30 s) and tries again, with no wait after the last attempt; a
\* 200, 401, 403 or 404 response ends the call at once (401/403 recorded as
\* access restricted, 404 as page not found).
C26_RetriesAsStated == RetryDiscipline(AnyFinalStatus) /\ RecordedAsDocumented

\* C26, amended: as above, but of the 200 responses only one whose body is
\* read and parsed ends the call; a 200 response whose body cannot be read is
\* retried like any other failure.
C26_Retries == RetryDiscipline(FinalStatusRead) /\ RecordedAsDocumented

\* Three attempts, two waits, and the second try of a 200 response whose body
\* could not be read.
C26_Witness ==
  /\ pc = "returned"
  /\ Len(log) = 5
  /\ log[1].status = 200 /\ ~log[1].read
  /\ log[2].call = "sleep"
  /\ log[3].error.name = "AbortError"
  /\ log[5].status = 500

\* The message the failed attempt e of the log leaves in errorMessage.
MessageOf(e) ==
  IF e.error.name = "AbortError"
  THEN <<"u30BF", "u30A4", "u30E0", "u30A2", "u30A6", "u30C8", "uFF08", "u8A66", "u884C">> \o DecStr(e.attempt) \o <<"/", "3", "uFF09">>
  ELSE IF e.error.name = "TypeError"
  THEN (IF Includes(e.error.text, <<"f", "e", "t", "c", "h">>) THEN <<"u63A5", "u7D9A", "u30A8", "u30E9", "u30FC", ":", " ">>
        ELSE <<"u4E0D", "u660E", "u306A", "u30A8", "u30E9", "u30FC", ":", " ">>) \o e.error.text
  ELSE <<"H", "T", "T", "P", " ">> \o DecStr(e.status)

\* The call used up its attempts: the last one neither read a 200 response
\* nor met 401, 403 or 404.
UsedUp ==
  /\ pc = "returned"
  /\ log # <<>>
  /\ ~FinalStatusRead(log[Len(log)])

\* C28: fetch resolves and never rejects, and the PageData it returns has
\* status success, blocked or error, never pending and never timeout: after
\* the last failed attempt the status is error and errorMessage is the message
\* of that last attempt, even when every attempt was aborted by the timeout.
C28_ReturnedStatus ==
  /\ ~thrown
  /\ pc = "returned" => page.status \in {"success", "blocked", "error"}
  /\ UsedUp =>
       /\ page.status = "error"
       /\ page.errorMessage = MessageOf(log[Len(log)])

\* Every attempt was aborted by the timeout.
C28_Witness ==
  /\ UsedUp
  /\ \A k \in Attempts : log[k].error.name = "AbortError"
  /\ Cardinality(Attempts) = 3
  /\ page.errorMessage = <<"u30BF", "u30A4", "u30E0", "u30A2", "u30A6", "u30C8", "uFF08", "u8A66", "u884C", "3", "/", "3", "uFF09">>

---------------------------------------------------------------------------
(* runPipeline: the steps are run one after another.                       *)

MaxSteps == 3

\* The steps a caller may list: an agent and a label each (buildPrompt is
\* kept by what it is handed).
StepChoices ==
  {[agent |-> "schema", label |-> <<"J", "S", "O", "N", "-", "L", "D">> ],
   [agent |-> "writer", label |-> <<"u8A18", "u4E8B">> ]}

RECURSIVE ListsOf(_, _)
ListsOf(S, n) ==
  IF n = 0 THEN {<<>>}
  ELSE ListsOf(S, n - 1)
         \cup {Append(l, x) : l \in {m \in ListsOf(S, n - 1) : Len(m) = n - 1},
                              x \in S}

\* The texts generateText may answer with.
AgentTexts == {<<"{", "}">>, <<"o", "k">>}

\* The body of the loop up to the await, reporting the step after its call.
stepCalls_ProgressLast(stps, res) ==
  <<[call |-> "buildPrompt", previous |-> res],
    [call |-> "callSubAgent", agent |-> stps[Len(res) + 1].agent,
     prompt |-> [step |-> Len(res) + 1, previous |-> res]],
    [call |-> "onProgress", step |-> Len(res) + 1, total |-> Len(stps),
     label |-> stps[Len(res) + 1].label]>>

\* The body of the loop up to the await, for i = results.length:
\* onProgress?.(i + 1, steps.length, step.label), step.buildPrompt(results)
\* and callSubAgent(step.agent, prompt).
stepCalls(stps, res) ==
  <<[call |-> "onProgress", step |-> Len(res) + 1, total |-> Len(stps),
     label |-> stps[Len(res) + 1].label],
    [call |-> "buildPrompt", previous |-> res],
    [call |-> "callSubAgent", agent |-> stps[Len(res) + 1].agent,
     prompt |-> [step |-> Len(res) + 1, previous |-> res]]>>

InitPipeline ==
  /\ pc = "runPipeline"
  /\ steps \in ListsOf(StepChoices, MaxSteps)
  /\ results = <<>>
  /\ log = <<>>
  /\ thrown = FALSE
  /\ IdleEval /\ IdleJsonLd /\ IdleMissing /\ IdleAudit
  /\ IdleTask /\ IdleFetch /\ IdleFetchAll

\* The call up to its first await, or to its return when there is no step.
RunPipeline ==
  /\ pc = "runPipeline"
  /\ IF Len(steps) = 0
     THEN pc' = "resolved" /\ log' = log
     ELSE pc' = "awaiting" /\ log' = log \o stepCalls(steps, results)
  /\ UNCHANGED <<steps, results, thrown, evalVars, jsonLdVars, missingVars,
                 auditVars, taskVars, fetchVars, fetchAllVars>>

\* await callSubAgent(...) resolves: results.push(result), i++, and the next
\* pass up to its await, or the return.
AgentResolves ==
  /\ pc = "awaiting"
  /\ \E text \in AgentTexts :
       /\ results' = Append(results, text)
       /\ IF Len(results) + 1 < Len(steps)
          THEN /\ pc' = "awaiting"
               /\ log' = Append(log, [call |-> "resolved", text |-> text])
                           \o stepCalls(steps, Append(results, text))
          ELSE /\ pc' = "resolved"
               /\ log' = Append(log, [call |-> "resolved", text |-> text])
  /\ UNCHANGED <<steps, thrown, evalVars, jsonLdVars, missingVars, auditVars,
                 taskVars, fetchVars, fetchAllVars>>

\* await callSubAgent(...) rejects: the error leaves runPipeline.
AgentRejects ==
  /\ pc = "awaiting"
  /\ log' = Append(log, [call |-> "rejected"])
  /\ thrown' = TRUE
  /\ pc' = "rejected"
  /\ UNCHANGED <<steps, results, evalVars, jsonLdVars, missingVars, auditVars,
                 taskVars, fetchVars, fetchAllVars>>

NextPipeline == RunPipeline \/ AgentResolves \/ AgentRejects

SpecPipeline == InitPipeline /\ [][NextPipeline]_vars

---------------------------------------------------------------------------
(* Claims about runPipeline, checked under SpecPipeline.                   *)

\* The steps begun so far.
Begun == IF pc \in {"awaiting", "rejected"} THEN Len(results) + 1 ELSE Len(results)

\* The four entries step k (from 1) leaves in the log are at 4k-3 .. 4k.
StepInOrder(k) ==
  /\ log[4 * k - 3] = [call |-> "onProgress", step |-> k, total |-> Len(steps),
                       label |-> steps[k].label]
  /\ log[4 * k - 2] = [call |-> "buildPrompt", previous |-> SubSeq(results, 1, k - 1)]
  /\ log[4 * k - 1].call = "callSubAgent"
  /\ log[4 * k - 1].agent = steps[k].agent
  /\ log[4 * k - 1].prompt.previous = SubSeq(results, 1, k - 1)
  /\ 4 * k <= Len(log) =>
       \/ k <= Len(results) /\ log[4 * k] = [call |-> "resolved", text |-> results[k]]
       \/ k = Len(results) + 1 /\ log[4 * k] = [call |-> "rejected"]
            /\ pc = "rejected" /\ thrown /\ Len(log) = 4 * k

\* C29: runPipeline runs its steps one after another in list order: for step
\* i (0-based) it calls onProgress(i+1, n, label), then builds the prompt from
\* exactly the i results of the earlier steps, then awaits the agent call; the
\* list returned has one result per step in step order, and when an agent
\* call fails the pipeline rejects and no later step is reported or run.
C29_StepsInOrder ==
  /\ Begun <= Len(steps)
  /\ Len(log) = IF pc = "awaiting" THEN 4 * Begun - 1 ELSE 4 * Begun
  /\ \A k \in 1..Begun : StepInOrder(k)
  /\ pc = "resolved" => Len(results) = Len(steps) /\ ~thrown
  /\ pc = "rejected" => thrown

\* Three steps run to the end.
C29_Witness ==
  /\ pc = "resolved"
  /\ Len(steps) = 3
  /\ results[1] # results[2]
  /\ steps[1] # steps[2]

---------------------------------------------------------------------------
(* fetchPagesForTask: all URLs are fetched at once.                        *)

MaxUrls == 3

\* The pages fetcher.fetch(u) may resolve with.
FetchedPages(u) ==
  {[createPageData(u) EXCEPT !.status = "success", !.httpStatus = 200,
                             !.title = parseAll.title],
   [createPageData(u) EXCEPT !.status = "blocked", !.httpStatus = 403,
                             !.errorMessage = <<"H", "T", "T", "P", " ", "4", "0", "3", " ", "-", " ", "u30A2", "u30AF", "u30BB", "u30B9", "u5236", "u9650">> ],
   [createPageData(u) EXCEPT !.status = "error", !.httpStatus = 404,
                             !.errorMessage = <<"H", "T", "T", "P", " ", "4", "0", "4", " ", "-", " ", "u30DA", "u30FC", "u30B8", "u975E", "u5B58", "u5728">> ]}

\* What the promise of fetcher.fetch(u) may settle with.
Settlements(u) ==
  {[status |-> "fulfilled", value |-> p, reason |-> <<>>] : p \in FetchedPages(u)}
  \cup {[status |-> "rejected", value |-> <<>>, reason |-> <<"E", "r", "r", "o", "r", ":", " ", "b", "o", "o", "m">> ]}

Pending == [status |-> "pending", value |-> <<>>, reason |-> <<>>]

\* settled.map((result, i) => ...): the page of one settled promise
pageOf(u, outcome) ==
  IF outcome.status = "fulfilled" THEN outcome.value
  ELSE [createPageData(u) EXCEPT !.status = "error",
                                 !.errorMessage = <<"u53D6", "u5F97", "u5931", "u6557", ":", " ">> \o outcome.reason]

\* The test failing the task as soon as one page is no success.
noSuccess_AnyFailure(res) == \E k \in DOMAIN res : res[k].status # "success"

\* successCount === 0
noSuccess(res) == Cardinality({k \in DOMAIN res : res[k].status = "success"}) = 0

InitFetchAll ==
  /\ pc = "fetchPagesForTask"
  /\ urls \in ListsOf(FetchUrls, MaxUrls)
  /\ settled = <<>>
  /\ results = <<>>
  /\ log = <<>>
  /\ thrown = FALSE
  /\ IdleEval /\ IdleJsonLd /\ IdleMissing /\ IdleAudit
  /\ IdleTask /\ IdleFetch /\ steps = <<>>

\* The call up to await Promise.allSettled(promises): onProgress, and
\* urls.map((url) => fetcher.fetch(url)) starting every fetch.
StartFetches ==
  /\ pc = "fetchPagesForTask"
  /\ log' = <<[call |-> "onProgress", step |-> 1, total |-> 99]>>
              \o [k \in DOMAIN urls |-> [call |-> "fetch", url |-> urls[k]]]
  /\ settled' = [k \in DOMAIN urls |-> Pending]
  /\ pc' = "allSettled"
  /\ UNCHANGED <<urls, steps, results, thrown, evalVars, jsonLdVars, missingVars,
                 auditVars, taskVars, fetchVars>>

\* One of the fetches under way settles.
Settle ==
  /\ pc = "allSettled"
  /\ \E k \in DOMAIN urls :
       /\ settled[k] = Pending
       /\ \E outcome \in Settlements(urls[k]) :
            settled' = [settled EXCEPT ![k] = outcome]
       /\ log' = Append(log, [call |-> "settled", index |-> k])
  /\ UNCHANGED <<pc, urls, steps, results, thrown, evalVars, jsonLdVars,
                 missingVars, auditVars, taskVars, fetchVars>>

\* Promise.allSettled resolves: the results are built and returned or thrown.
Collect ==
  /\ pc = "allSettled"
  /\ \A k \in DOMAIN urls : settled[k] # Pending
  /\ results' = [k \in DOMAIN urls |-> pageOf(urls[k], settled[k])]
  /\ thrown' = noSuccess(results')
  /\ pc' = IF noSuccess(results') THEN "rejected" ELSE "resolved"
  /\ UNCHANGED <<urls, steps, settled, log, evalVars, jsonLdVars, missingVars,
                 auditVars, taskVars, fetchVars>>

NextFetchAll == StartFetches \/ Settle \/ Collect

SpecFetchAll == InitFetchAll /\ [][NextFetchAll]_vars

---------------------------------------------------------------------------
(* Claims about fetchPagesForTask, checked under SpecFetchAll.             *)

\* Every fetch was started, in input order, before any of them settled.
AllStarted ==
  /\ Len(log) >= 1 + Len(urls)
  /\ \A k \in DOMAIN urls : log[1 + k] = [call |-> "fetch", url |-> urls[k]]
  /\ \A k \in DOMAIN log : k > 1 + Len(urls) => log[k].call = "settled"

\* C30: fetchPagesForTask starts the fetches of all URLs at once and, whatever
\* order they complete in, returns exactly one PageData per input URL in
\* input order (result i has url urls[i]; a rejected fetch becomes an error
\* page for that URL); it throws exactly when no URL ended with status
\* success, and otherwise returns the failed pages together with the others.
C30_OnePagePerUrl ==
  /\ pc # "fetchPagesForTask" => AllStarted
  /\ pc \in {"resolved", "rejected"} =>
       /\ Len(results) = Len(urls)
       /\ \A k \in DOMAIN urls :
            /\ results[k].url = urls[k]
            /\ settled[k].status = "fulfilled" => results[k] = settled[k].value
            /\ settled[k].status = "rejected" =>
                 /\ results[k].status = "error"
                 /\ results[k].errorMessage = <<"u53D6", "u5F97", "u5931", "u6557", ":", " ", "E", "r", "r", "o", "r", ":", " ", "b", "o", "o", "m">>
       /\ (pc = "rejected") = (\A k \in DOMAIN urls : results[k].status # "success")
       /\ thrown = (pc = "rejected")
  /\ pc \notin {"resolved", "rejected"} => ~thrown /\ results = <<>>

\* Three fetches completing in the reverse of the input order, one of them
\* rejected, one blocked, one a success: the pages come back in input order.
C30_Witness ==
  /\ pc = "resolved"
  /\ Len(urls) = 3
  /\ urls[1] # urls[2]
  /\ log[5].index = 3 /\ log[6].index = 2 /\ log[7].index = 1
  /\ settled[1].status = "rejected"
  /\ results[2].status = "blocked"
  /\ results[3].status = "success"

====
